---- MODULE Spec2Model ----
(***************************************************************************)
(* Model of the pair-measurement bot's trigger evaluator                   *)
(* (src/src/trigger_evaluator.py) with the price arithmetic of             *)
(* src/src/price_utils.py and the domain records of src/src/models.py.     *)
(*                                                                         *)
(* All prices are integer points.  A midpoint may be a half point, so the  *)
(* real-valued arguments of round_to_tick are carried as DOUBLED integers  *)
(* (raw2 = 2 * raw_points); every result is an integer number of points.   *)
(* Timestamps are represented by the cycle number they were taken in.      *)
(* Lifecycle records are off (enable_lifecycle = False, the default).      *)
(***************************************************************************)
EXTENDS Integers, Sequences, FiniteSets, TLC

(* ------------------------------------------------------------------ *)
(* Bounds of the model                                                  *)
(* ------------------------------------------------------------------ *)

\* number of measurement cycles explored per market
MaxCycles == 3

(* ------------------------------------------------------------------ *)
(* Python values                                                        *)
(* ------------------------------------------------------------------ *)

\* Python's None for Optional[int] fields (no price, distance or profit
\* of the model comes near this value)
None == -9999

\* Python truthiness of an Optional[int]
Truthy(x) == x # None /\ x # 0

\* Python "a or b"
PyOr(a, b) == IF Truthy(a) THEN a ELSE b

Max2(a, b) == IF a >= b THEN a ELSE b

Min2(a, b) == IF a <= b THEN a ELSE b

(* ------------------------------------------------------------------ *)
(* models.py                                                            *)
(* ------------------------------------------------------------------ *)

YES == "YES"

NO == "NO"

Side == {YES, NO}

\* Side.opposite
opposite(s) == IF s = YES THEN NO ELSE YES

ACTIVE == "active"

COMPLETED_PAIRED == "completed_paired"

COMPLETED_FAILED == "completed_failed"

\* ParameterSet.pair_cap_points: PairCap = 100 - delta
pair_cap_points(p) == 100 - p.delta_points

(* ------------------------------------------------------------------ *)
(* price_utils.py                                                       *)
(* ------------------------------------------------------------------ *)

\* round_to_tick(raw_points, tick): int(math.floor(raw / tick)) * tick,
\* with raw given doubled (raw2 = 2 * raw_points).  \div is floor division.
round_to_tick(raw2, tick) == (raw2 \div (2 * tick)) * tick

\* clamp_trigger(trigger_points, tick): max(tick, min(trigger, 99))
clamp_trigger(trigger_points, tick) == Max2(tick, Min2(trigger_points, 99))

\* midpoint_points(bid, ask) = (bid + ask) / 2.0, returned doubled
midpoint2(bid, ask) == bid + ask

\* int(ref) of a positive midpoint: truncation = floor
int_of_half(ref2) == ref2 \div 2

(* ------------------------------------------------------------------ *)
(* Sequence helpers (Python list / insertion-ordered dict)              *)
(* ------------------------------------------------------------------ *)

Range(q) == {q[i] : i \in DOMAIN q}

\* dict.pop(side, None) on the insertion-ordered dict of pending limits
DictPop(pl, side) == SelectSeq(pl, LAMBDA p : p.side # side)

\* dict[side] = rec: an existing key keeps its position, a new key is appended
DictSet(pl, rec) ==
    IF \E i \in DOMAIN pl : pl[i].side = rec.side
    THEN [i \in DOMAIN pl |-> IF pl[i].side = rec.side THEN rec ELSE pl[i]]
    ELSE Append(pl, rec)

(* ------------------------------------------------------------------ *)
(* Inputs: parameter sets and snapshots                                 *)
(* ------------------------------------------------------------------ *)

\* tick sizes a market can carry (market_discovery floors a tick below 1 to 1;
\* a tick of "0.1" gives 10 points)
Params(tick, S0, delta, buffer, stop_loss) ==
    [ tick |-> tick, S0_points |-> S0, delta_points |-> delta,
      maker_buffer_points |-> buffer,
      stop_loss_threshold_points |-> stop_loss ]

\* S0 in [0, 50), delta in (0, 50), stop loss None (= no stop loss) or in
\* (0, 50) as config.py validates them
ParameterSets ==
    { Params(1, 1, 5, 0, None),
      Params(1, 1, 5, 3, 3),
      Params(1, 0, 3, 1, None),
      Params(1, 2, 3, 1, 3),
      Params(10, 1, 5, 0, None),
      Params(10, 1, 5, 0, 3) }

Snap(yb, ya, nb, na, yl, nl) ==
    [ yes_bid_points |-> yb, yes_ask_points |-> ya,
      no_bid_points |-> nb, no_ask_points |-> na,
      yes_period_low_ask_points |-> yl, no_period_low_ask_points |-> nl ]

\* the order books a cycle can observe
Snapshots ==
    { Snap(48, 52, 48, 52, None, None),   \* quiet book
      Snap(48, 52, 48, 52, 49, None),     \* YES wick down to 49
      Snap(48, 52, 48, 52, None, 46),     \* NO wick down to 46
      Snap(50, 54, 48, 52, 51, 49),       \* both sides touched, equal distance
      Snap(50, 54, 48, 52, 50, 49),       \* both touched, YES harder
      Snap(50, 54, 48, 52, 51, 48),       \* both touched, NO harder
      Snap(46, 50, 48, 52, None, 46),     \* YES bid dips while NO wicks to 46
      Snap(46, 50, 50, 54, None, None),   \* YES bid dips, NO away
      Snap(44, 48, 50, 54, 46, None),     \* YES falls with a wick to 46
      Snap(96, 98, 2, 4, None, None),     \* lopsided book
      Snap(96, 98, 2, 4, 90, None),       \* lopsided book, YES wick to 90
      Snap(96, 98, 2, 4, 47, None),       \* YES jumped up from a low of 47
      Snap(None, 52, 48, 52, None, None), \* missing bid
      Snap(52, 52, 48, 52, None, 46) }    \* crossed YES book

(* ------------------------------------------------------------------ *)
(* State                                                                *)
(* ------------------------------------------------------------------ *)

VARIABLES
    params,            \* TriggerEvaluator.params (+ market_info.tick_size_points)
    pending_limits,    \* _pending_limits, in dict insertion order
    attempts,          \* every Attempt object created, indexed by identity
    active_attempts,   \* active_attempts: identities, in list order
    attempt_counter,   \* _attempt_counter
    closest_approach,  \* _closest_approach[key]  (None = key absent)
    closest_approach_cn, \* _closest_approach_cn[key]
    mae,               \* _mae[key]
    mae_cn,            \* _mae_cn[key]
    total_attempts, total_pairs, total_failed, max_concurrent,
    cycles_run,        \* MarketMonitor.cycles_run, passed as cycle_number
    snapshot,          \* the snapshot of the last evaluate_cycle call
    result,            \* the CycleResult of the last evaluate_cycle call
    settled,           \* the list returned by the last process_settlement call
    settle_reason,     \* the fail_reason argument of that call
    finished,          \* process_settlement has been called (the run is over)
    observed,          \* the snapshots of all evaluate_cycle calls, by cycle number
    \* --- MarketMonitor ---
    pc,                \* the await (or entry) MarketMonitor.run is at
    was_shutdown,      \* _was_shutdown
    loop_end,          \* the way _run_cycles was left ("" while it runs)
    shutdown,          \* the shutdown asyncio.Event is set
    cancels,           \* task.cancel() calls delivered to the monitor's task
    elapsed,           \* cycle intervals slept through
    feed_age,          \* age of the feed's last message when a cycle was last due
    store,             \* the rows of the Attempts table
    summary_written,   \* update_market_summary has completed
    \* --- AssetManager ---
    am_pc,             \* the await (or check) AssetManager.run is at
    attempt,           \* the loop variable of _discover_with_retry
    discovery_calls,   \* _discover_next_market calls of this _discover_with_retry
    delay,             \* the timeout of the last retry wait (None before one)
    markets_monitored, \* len(_summaries)
    am_cancelled,      \* task.cancel() has been delivered to the manager's task
    am_exit,           \* why AssetManager.run left its loop ("" while in it)
    \* --- Database (two monitors write to one store) ---
    db_open,           \* initialize() has run and close() has not
    is_postgres,       \* Database._is_postgres
    write_lock,        \* holder of _write_lock (0 = free)
    rowid_seq,         \* last attempt_id the store generated
    db_attempts,       \* committed rows of Attempts
    db_markets,        \* committed rows of Markets
    sq_rows,           \* Attempts rows of the SQLite connection's open transaction
    sq_markets,        \* Markets as the SQLite connection sees it
    pg_rows,           \* Attempts rows of each writer's open PostgreSQL transaction
    w_pc,              \* where each writer's store call is
    w_op,              \* the store call each writer is in
    w_ids,             \* attempt_id values written back to each writer's Attempts
    w_calls,           \* store calls each writer has made
    failed_batches,    \* the insert batches that raised
    \* --- WebSocketClient and MarketMonitor._capture_snapshot ---
    orderbooks,        \* _orderbooks[token]: best_bid, best_ask
    reported,          \* the bests the feed reported per token since the last snapshot
    period,            \* the value of reported when the last snapshot was built
    captured,          \* the Snapshot _capture_snapshot last returned
    captures,          \* _capture_snapshot calls
    feed_steps,        \* feed events handled and snapshots built
    \* --- main() ---
    sup_pc,            \* the await main() is at
    cancel_requests,   \* task.cancel() calls that reached the manager's task
    at_shutdown,       \* what the manager's task was doing when shutdown began
    \* --- MarketMonitor.run before _run_cycles ---
    run_pc,            \* the await of run() before the cycle loop ("cycles": in it)
    remaining_at_start, \* time_remaining_at_start, in cycle intervals
    prelude_time,      \* intervals spent connecting and waiting for the first books
    loop_remaining,    \* intervals to settlement when _run_cycles is entered
    ws_connected,      \* connect_and_subscribe has returned
    market_row,        \* insert_market has completed
    \* --- WebSocketClient: connection loop and stop() ---
    conn_pc,           \* where _connection_loop is: idle, connecting, open, sleeping, ended
    ws_running,        \* self._running
    backoff,           \* the loop's local backoff, in seconds
    max_delay,         \* self.reconnect_max_delay
    sleep_for,         \* the argument of the latest asyncio.sleep(backoff)
    failures,          \* connections failed or dropped since the last successful connect
    connects,          \* websockets.connect calls made
    stop_pc,           \* where stop() is: none, closing, joining, done
    listen_cancel      \* _listen_task.cancel() was called and is still to be raised

monitor_vars == << pc, was_shutdown, loop_end, shutdown, cancels, elapsed,
                   feed_age, store, summary_written >>

am_vars == << am_pc, attempt, discovery_calls, delay, markets_monitored,
              am_cancelled, am_exit >>

store_vars == << db_open, is_postgres, write_lock, rowid_seq, db_attempts,
                 db_markets, sq_rows, sq_markets, pg_rows, w_pc, w_op, w_ids,
                 w_calls, failed_batches >>

feed_vars == << orderbooks, reported, period, captured, captures, feed_steps >>

\* the components outside the evaluator, the monitor and the asset manager
sup_vars == << sup_pc, cancel_requests, at_shutdown >>

run_vars == << run_pc, remaining_at_start, prelude_time, loop_remaining,
              ws_connected, market_row >>

conn_vars == << conn_pc, ws_running, backoff, max_delay, sleep_for, failures,
               connects, stop_pc, listen_cancel >>

outside_vars == << store_vars, feed_vars, sup_vars, run_vars, conn_vars >>

\* the two tokens of a market
Tokens == {"yes", "no"}

\* the writers: the monitors of two assets, sharing one Database
Writers == {1, 2}

NoOp == [ kind |-> "none", n |-> 0, i |-> 0, b |-> 0 ]

vars == << params, pending_limits, attempts, active_attempts, attempt_counter,
           closest_approach, closest_approach_cn, mae, mae_cn,
           total_attempts, total_pairs, total_failed, max_concurrent,
           cycles_run, snapshot, result, settled, settle_reason, finished,
           observed, monitor_vars, am_vars, outside_vars >>

evaluator_state == << pending_limits, attempts, active_attempts, attempt_counter,
                      closest_approach, closest_approach_cn, mae, mae_cn,
                      total_attempts, total_pairs, total_failed, max_concurrent >>

\* CycleResult() defaults
EmptyResult ==
    [ new_attempts |-> << >>, paired_attempts |-> << >>, active_count |-> 0,
      pending_limit_count |-> 0, skipped |-> FALSE, anomaly |-> FALSE ]

\* WebSocketClient.__init__: reconnect_max_delay: int = 60
DEFAULT_RECONNECT_MAX_DELAY == 60

Init ==
    /\ params \in ParameterSets
    /\ pending_limits = << >>
    /\ attempts = << >>
    /\ active_attempts = << >>
    /\ attempt_counter = 0
    /\ closest_approach = << >>
    /\ closest_approach_cn = << >>
    /\ mae = << >>
    /\ mae_cn = << >>
    /\ total_attempts = 0
    /\ total_pairs = 0
    /\ total_failed = 0
    /\ max_concurrent = 0
    /\ cycles_run = 0
    /\ snapshot = Snap(None, None, None, None, None, None)
    /\ result = EmptyResult
    /\ settled = << >>
    /\ settle_reason = ""
    /\ finished = FALSE
    /\ observed = << >>
    \* MarketMonitor.__init__, and run() up to the call of _run_cycles
    /\ pc = "first_cycle"
    /\ was_shutdown = FALSE
    /\ loop_end = ""
    /\ shutdown = FALSE
    /\ cancels = 0
    /\ elapsed = 0
    /\ feed_age = None
    /\ store = {}
    /\ summary_written = FALSE
    \* TokenOrderbook(asset_id=aid) for both tokens; nothing reported or captured
    /\ orderbooks = [ t \in Tokens |-> [ best_bid |-> None, best_ask |-> None ] ]
    /\ reported = [ t \in Tokens |-> [ bids |-> {}, asks |-> {} ] ]
    /\ period = [ t \in Tokens |-> [ bids |-> {}, asks |-> {} ] ]
    /\ captured = Snap(None, None, None, None, None, None)
    /\ captures = 0
    /\ feed_steps = 0
    \* main() before await db.initialize()
    /\ sup_pc = "start"
    /\ cancel_requests = 0
    /\ at_shutdown = ""
    \* run() has connected the feed and inserted the market at once, with
    \* MaxCycles intervals left
    /\ run_pc = "cycles"
    /\ remaining_at_start = MaxCycles
    /\ prelude_time = 0
    /\ loop_remaining = MaxCycles
    /\ ws_connected = TRUE
    /\ market_row = TRUE
    /\ conn_pc = "idle"
    /\ ws_running = FALSE
    /\ backoff = 1
    /\ max_delay = DEFAULT_RECONNECT_MAX_DELAY
    /\ sleep_for = None
    /\ failures = 0
    /\ connects = 0
    /\ stop_pc = "none"
    /\ listen_cancel = FALSE
    /\ am_pc = "loop_check"
    /\ attempt = 0
    /\ discovery_calls = 0
    /\ delay = None
    /\ markets_monitored = 0
    /\ am_cancelled = FALSE
    /\ am_exit = ""
    \* Database.__init__
    /\ db_open = FALSE
    /\ is_postgres = FALSE
    /\ write_lock = 0
    /\ rowid_seq = 0
    /\ db_attempts = {}
    /\ db_markets = {}
    /\ sq_rows = {}
    /\ sq_markets = {}
    /\ pg_rows = [w \in Writers |-> {}]
    /\ w_pc = [w \in Writers |-> "idle"]
    /\ w_op = [w \in Writers |-> NoOp]
    /\ w_ids = [w \in Writers |-> << >>]
    /\ w_calls = [w \in Writers |-> 0]
    /\ failed_batches = {}

(* ------------------------------------------------------------------ *)
(* trigger_evaluator.py: pure pieces of evaluate_cycle                  *)
(* ------------------------------------------------------------------ *)

\* TriggerEvaluator.__init__ default max_ref_sum_deviation
max_ref_sum_deviation == 2

has_valid_orderbook_no_cross(s) ==
    \A f \in { s.yes_bid_points, s.yes_ask_points,
                s.no_bid_points, s.no_ask_points } : ~(f = None \/ f <= 0)

\* _has_valid_orderbook
has_valid_orderbook(s) ==
    /\ \A f \in { s.yes_bid_points, s.yes_ask_points,
                  s.no_bid_points, s.no_ask_points } : ~(f = None \/ f <= 0)
    /\ ~(s.yes_bid_points >= s.yes_ask_points)
    /\ ~(s.no_bid_points >= s.no_ask_points)

SideBid(s, side) == IF side = YES THEN s.yes_bid_points ELSE s.no_bid_points

SideAsk(s, side) == IF side = YES THEN s.yes_ask_points ELSE s.no_ask_points

SidePeriodLowAsk(s, side) ==
    IF side = YES THEN s.yes_period_low_ask_points ELSE s.no_period_low_ask_points

LowAsk_current(s, side) == SideAsk(s, side)

\* period-low ask, falling back to the instantaneous ask
LowAsk(s, side) == PyOr(SidePeriodLowAsk(s, side), SideAsk(s, side))

\* doubled reference price (midpoint) of a side
Ref2(s, side) == midpoint2(SideBid(s, side), SideAsk(s, side))

\* ref_yes_int / ref_no_int
RefInt(s, side) == int_of_half(Ref2(s, side))

\* abs(ref_sum - 100) > max_ref_sum_deviation, on doubled values
Anomaly(s) ==
    LET d2 == Ref2(s, YES) + Ref2(s, NO) - 200
    IN  (IF d2 >= 0 THEN d2 ELSE 0 - d2) > 2 * max_ref_sum_deviation

\* Step 4: limit price = clamp(min(reference - S0, ask - maker_buffer))
LimitPrice(p, s, side) ==
    LET limit_from_ref == round_to_tick(Ref2(s, side) - 2 * p.S0_points, p.tick)
        limit_from_buffer ==
            round_to_tick(2 * (SideAsk(s, side) - p.maker_buffer_points), p.tick)
    IN  clamp_trigger(Min2(limit_from_ref, limit_from_buffer), p.tick)

Suppressed_above_only(p, limit_price) == limit_price > pair_cap_points(p)

\* Step 4: PairCap guard, "don't place if limit >= PairCap"
Suppressed(p, limit_price) == limit_price >= pair_cap_points(p)

Touched_strict(low_ask, limit_price) == low_ask # None /\ low_ask < limit_price

\* Steps 3 and 5: the fill test of a pending limit
Touched(low_ask, limit_price) == low_ask # None /\ low_ask <= limit_price

\* Step 3: a limit carried from an earlier cycle fills
DelayedFill(pending, s, cycle_number) ==
    /\ Touched(LowAsk(s, pending.side), pending.limit_price_points)
    /\ cycle_number - pending.placed_cycle >= 1

NewPending(p, s, side, cycle_number) ==
    [ side |-> side,
      limit_price_points |-> LimitPrice(p, s, side),
      ask_at_placement_points |-> SideAsk(s, side),
      reference_yes_points |-> RefInt(s, YES),
      reference_no_points |-> RefInt(s, NO),
      placed_cycle |-> cycle_number ]

Refresh_no_skip(p, pl, s, side, filled_sides, cycle_number) ==
    IF Suppressed(p, LimitPrice(p, s, side)) THEN DictPop(pl, side)
    ELSE DictSet(pl, NewPending(p, s, side, cycle_number))

\* Step 4 for one side
Refresh(p, pl, s, side, filled_sides, cycle_number) ==
    IF side \in filled_sides THEN pl
    ELSE IF Suppressed(p, LimitPrice(p, s, side)) THEN DictPop(pl, side)
    ELSE DictSet(pl, NewPending(p, s, side, cycle_number))

(* ------------------------------------------------------------------ *)
(* _create_attempt_from_pending                                         *)
(* ------------------------------------------------------------------ *)

\* opp_trigger_from_ref
OppTriggerFromRef(p, opp_ref) ==
    clamp_trigger(round_to_tick(2 * (opp_ref - p.S0_points), p.tick), p.tick)

\* opp_max with its edge-case guard (opp_max < tick -> tick)
OppMax(p, P1) ==
    LET m == round_to_tick(2 * (pair_cap_points(p) - P1), p.tick)
    IN  IF m < p.tick THEN p.tick ELSE m

OppTrigger_max_only(from_ref, opp_max) == opp_max

\* Final trigger = stricter of the two
OppTrigger(from_ref, opp_max) == Min2(from_ref, opp_max)

AttemptCycleNumber_placed(pending, cycle_number) == pending.placed_cycle

\* Attempt(cycle_number = cycle_number, ...)
AttemptCycleNumber(pending, cycle_number) == cycle_number

CreateAttempt(p, pending, s, cycle_number, cycles_to_fill, counter) ==
    LET P1 == pending.limit_price_points
        opposite_side == opposite(pending.side)
        opp_ref == RefInt(s, opposite_side)
        opp_max == OppMax(p, P1)
    IN  [ attempt_id |-> counter,
          cycle_number |-> AttemptCycleNumber(pending, cycle_number),
          first_leg_side |-> pending.side,
          P1_points |-> P1,
          reference_yes_points |-> RefInt(s, YES),
          reference_no_points |-> RefInt(s, NO),
          opposite_side |-> opposite_side,
          opposite_trigger_points |-> OppTrigger(OppTriggerFromRef(p, opp_ref), opp_max),
          opposite_max_points |-> opp_max,
          status |-> ACTIVE,
          t2_cycle_number |-> None,
          time_remaining_at_completion |-> None,
          actual_opposite_price |-> None,
          pair_cost_points |-> None,
          pair_profit_points |-> None,
          fail_reason |-> "",
          had_feed_gap |-> FALSE,
          closest_approach_points |-> None,
          closest_approach_cycle_number |-> None,
          max_adverse_excursion_points |-> None,
          mae_cycle_number |-> None,
          delta_points |-> p.delta_points,
          S0_points |-> p.S0_points,
          limit_placed_cycle |-> pending.placed_cycle,
          cycles_to_fill_first_leg |-> cycles_to_fill,
          ask_at_placement_points |-> pending.ask_at_placement_points,
          placement_buffer_points |-> pending.ask_at_placement_points - P1 ]

(* ------------------------------------------------------------------ *)
(* evaluate_cycle: tie-break, pairing, trackers                         *)
(* ------------------------------------------------------------------ *)

\* dist = P1 - low_ask if low_ask else 0
TouchDistance(a, s) ==
    LET ask == LowAsk(s, a.first_leg_side)
    IN  IF Truthy(ask) THEN a.P1_points - ask ELSE 0

\* "if dist0 < dist1: new_attempts = [a1, a0]"
SwapNeeded(dist0, dist1) == dist0 < dist1

\* Simultaneous fills: the order of the new attempts (created is the list of
\* attempt records in creation order, whose identities are first_key, ...)
NewOrder(created, first_key, s) ==
    IF Len(created) = 2 /\ SwapNeeded(TouchDistance(created[1], s),
                                      TouchDistance(created[2], s))
    THEN << first_key + 1, first_key >>
    ELSE [i \in 1..Len(created) |-> first_key + i - 1]

PairCondition_strict(a, s) ==
    LET opp_ask == LowAsk(s, a.opposite_side)
    IN  opp_ask # None /\ opp_ask < a.opposite_trigger_points

\* Step 6: the pairing test of one active attempt
PairCondition(a, s) ==
    LET opp_ask == LowAsk(s, a.opposite_side)
    IN  opp_ask # None /\ opp_ask <= a.opposite_trigger_points

\* the fill price of the second leg is modelled as the limit price itself
LimitFillPrice(a, s) == a.opposite_trigger_points

pair_cost(P1, limit_fill_price) == P1 + limit_fill_price

pair_profit_sign(cost) == cost - 100

pair_profit(cost) == 100 - cost

\* Step 6, PAIRED branch: the attempt after the assignments of lines 319-349
PairedAttempt(a, s, cycle_number, time_remaining, mae_k, mae_cn_k) ==
    LET fill == LimitFillPrice(a, s)
        cost == pair_cost(a.P1_points, fill)
    IN  [ a EXCEPT
          !.status = COMPLETED_PAIRED,
          !.t2_cycle_number = cycle_number,
          !.actual_opposite_price = fill,
          !.pair_cost_points = cost,
          !.pair_profit_points = pair_profit(cost),
          !.time_remaining_at_completion = time_remaining,
          !.closest_approach_points = 0,
          !.closest_approach_cycle_number = cycle_number,
          !.max_adverse_excursion_points = IF mae_k # None THEN mae_k ELSE 0,
          !.mae_cycle_number = IF mae_k # None THEN mae_cn_k ELSE @ ]

ClosestNext_latest(a, s, prev_k) ==
    LET opp_ask == LowAsk(s, a.opposite_side)
    IN  IF opp_ask # None /\ opp_ask > 0
        THEN opp_ask - a.opposite_trigger_points ELSE prev_k

MaeNext_latest(a, s, prev_k) ==
    LET bid == SideBid(s, a.first_leg_side)
    IN  IF bid # None /\ bid > 0 THEN Max2(0, a.P1_points - bid) ELSE prev_k

PoppedEntry_kept(v) == v

\* self._closest_approach.pop(key, None), ... self._mae_cn.pop(key, None):
\* the entry of a tracker after the pop
PoppedEntry(v) == None

\* Step 8, closest approach: the new tracker entry of a still-active attempt
ClosestNext(a, s, prev_k) ==
    LET opp_ask == LowAsk(s, a.opposite_side)
        dist == opp_ask - a.opposite_trigger_points
        prev == IF prev_k # None THEN prev_k ELSE 9999
    IN  IF opp_ask # None /\ opp_ask > 0 /\ dist < prev THEN dist ELSE prev_k

ClosestCnNext(a, s, prev_k, prev_cn, cycle_number) ==
    IF ClosestNext(a, s, prev_k) # prev_k THEN cycle_number ELSE prev_cn

MaeNext_signed(a, s, prev_k) ==
    LET bid == SideBid(s, a.first_leg_side)
    IN  IF bid # None /\ bid > 0 THEN a.P1_points - bid ELSE prev_k

\* Step 8, MAE: the new tracker entry of a still-active attempt
MaeNext(a, s, prev_k) ==
    LET bid == SideBid(s, a.first_leg_side)
        adverse == Max2(0, a.P1_points - bid)
        prev_mae == IF prev_k # None THEN prev_k ELSE 0
    IN  IF bid # None /\ bid > 0 /\ adverse > prev_mae THEN adverse ELSE prev_k

MaeCnNext(a, s, prev_k, prev_cn, cycle_number) ==
    IF MaeNext(a, s, prev_k) # prev_k THEN cycle_number ELSE prev_cn

\* Step 8: the still-active attempt after the tracker values are copied to it
TrackedAttempt(a, s, ca_k, ca_cn_k, mae_k, mae_cn_k) ==
    LET opp_ask == LowAsk(s, a.opposite_side)
        bid == SideBid(s, a.first_leg_side)
        a1 == IF opp_ask # None /\ opp_ask > 0
              THEN [ a EXCEPT !.closest_approach_points = ca_k,
                              !.closest_approach_cycle_number = ca_cn_k ]
              ELSE a
    IN  IF bid # None /\ bid > 0
        THEN [ a1 EXCEPT
               !.max_adverse_excursion_points = IF mae_k # None THEN mae_k ELSE 0,
               !.mae_cycle_number = mae_cn_k ]
        ELSE a1

\* time_remaining = settlement_time - now, with the settlement one interval
\* after the last explored cycle
time_remaining_at(cycle_number) == 10 * (MaxCycles + 1 - cycle_number)

(* ------------------------------------------------------------------ *)
(* Operations                                                           *)
(* ------------------------------------------------------------------ *)

\* evaluate_cycle on an invalid snapshot (Step 1)
SkippedResult ==
    [ EmptyResult EXCEPT !.skipped = TRUE,
                         !.active_count = Len(active_attempts),
                         !.pending_limit_count = Len(pending_limits) ]

\* MarketMonitor._execute_cycle for one evaluator: cycles_run += 1, then
\* evaluate_cycle(snapshot, cycle_number = cycles_run, ...)
EvaluateCycle(s) ==
    /\ ~finished
    /\ cycles_run < MaxCycles
    /\ cycles_run' = cycles_run + 1
    /\ snapshot' = s
    /\ observed' = Append(observed, s)
    /\ UNCHANGED << params, settled, settle_reason, finished >>
    /\ IF ~has_valid_orderbook(s)
       THEN /\ result' = SkippedResult
            /\ UNCHANGED evaluator_state
       ELSE LET cn == cycles_run + 1
                tr == time_remaining_at(cn)
                old(tracker, k) == IF k <= Len(attempts) THEN tracker[k] ELSE None
            IN
            \* each local of the handler is bound once, in program order
            \* Step 3: fills of limits carried from earlier cycles
            \E filled3 \in {SelectSeq(pending_limits, LAMBDA pd : DelayedFill(pd, s, cn))} :
            \E filled_sides \in {{filled3[i].side : i \in DOMAIN filled3}} :
            \E pend3 \in {SelectSeq(pending_limits, LAMBDA pd : pd.side \notin filled_sides)} :
            \* Step 4: refresh, YES then NO
            \E pend4 \in {Refresh(params, Refresh(params, pend3, s, YES, filled_sides, cn), s, NO, filled_sides, cn)} :
            \* Step 5: same-cycle fills
            \E filled5 \in {SelectSeq(pend4, LAMBDA pd : Touched(LowAsk(s, pd.side), pd.limit_price_points))} :
            \E same_cycle_filled \in {{filled5[i].side : i \in DOMAIN filled5}} :
            \E pend5 \in {SelectSeq(pend4, LAMBDA pd : pd.side \notin same_cycle_filled)} :
            \E n3 \in {Len(filled3)} : \E n5 \in {Len(filled5)} :
            \E created \in {[i \in 1..(n3 + n5) |->
                        IF i <= n3
                        THEN CreateAttempt(params, filled3[i], s, cn,
                                           cn - filled3[i].placed_cycle,
                                           attempt_counter + i)
                        ELSE CreateAttempt(params, filled5[i - n3], s, cn, 0,
                                           attempt_counter + i)]} :
            \E first_key \in {Len(attempts) + 1} :
            \* simultaneous fills: tie-break
            \E new_attempts \in {NewOrder(created, first_key, s)} :
            \E attempts1 \in {attempts \o created} :
            \E active1 \in {active_attempts \o new_attempts} :
            \* Step 6: pairing
            \E paired \in {SelectSeq(active1, LAMBDA k : PairCondition(attempts1[k], s))} :
            \E still_active \in {SelectSeq(active1, LAMBDA k : ~PairCondition(attempts1[k], s))} :
            \E pairedKeys \in {Range(paired)} :
            \E stillKeys \in {Range(still_active)} :
            \* Step 8: trackers of the attempts still active
            \E ca1 \in {[k \in DOMAIN attempts1 |->
                          IF k \in stillKeys
                          THEN ClosestNext(attempts1[k], s, old(closest_approach, k))
                          ELSE IF k \in pairedKeys
                          THEN PoppedEntry(old(closest_approach, k))
                          ELSE old(closest_approach, k)]} :
            \E cacn1 \in {[k \in DOMAIN attempts1 |->
                          IF k \in stillKeys
                          THEN ClosestCnNext(attempts1[k], s, old(closest_approach, k),
                                             old(closest_approach_cn, k), cn)
                          ELSE IF k \in pairedKeys
                          THEN PoppedEntry(old(closest_approach_cn, k))
                          ELSE old(closest_approach_cn, k)]} :
            \E mae1 \in {[k \in DOMAIN attempts1 |->
                          IF k \in stillKeys
                          THEN MaeNext(attempts1[k], s, old(mae, k))
                          ELSE IF k \in pairedKeys
                          THEN PoppedEntry(old(mae, k))
                          ELSE old(mae, k)]} :
            \E maecn1 \in {[k \in DOMAIN attempts1 |->
                          IF k \in stillKeys
                          THEN MaeCnNext(attempts1[k], s, old(mae, k),
                                         old(mae_cn, k), cn)
                          ELSE IF k \in pairedKeys
                          THEN PoppedEntry(old(mae_cn, k))
                          ELSE old(mae_cn, k)]} :
                /\ pending_limits' = pend5
                /\ attempt_counter' = attempt_counter + n3 + n5
                /\ total_attempts' = total_attempts + n3 + n5
                /\ attempts' =
                     [k \in DOMAIN attempts1 |->
                        IF k \in pairedKeys
                        THEN PairedAttempt(attempts1[k], s, cn, tr,
                                           old(mae, k), old(mae_cn, k))
                        ELSE IF k \in stillKeys
                        THEN TrackedAttempt(attempts1[k], s, ca1[k], cacn1[k],
                                            mae1[k], maecn1[k])
                        ELSE attempts1[k]]
                /\ active_attempts' = still_active
                /\ total_pairs' = total_pairs + Len(paired)
                /\ closest_approach' = ca1
                /\ closest_approach_cn' = cacn1
                /\ mae' = mae1
                /\ mae_cn' = maecn1
                /\ max_concurrent' = Max2(max_concurrent, Len(still_active))
                /\ UNCHANGED total_failed
                /\ result' = [ new_attempts |-> new_attempts,
                               paired_attempts |-> paired,
                               active_count |-> Len(still_active),
                               pending_limit_count |-> Len(pend5),
                               skipped |-> FALSE,
                               anomaly |-> Anomaly(s) ]

\* the fail reasons MarketMonitor.run passes to process_settlement
FailReasons == {"settlement_reached", "bot_shutdown"}

FailedAttempt_default_reason(a, fail_reason, time_remaining, ca_k, ca_cn_k, mae_k, mae_cn_k) ==
    [ a EXCEPT !.status = COMPLETED_FAILED,
               !.fail_reason = "settlement_reached",
               !.time_remaining_at_completion = time_remaining ]

\* process_settlement, loop body: the attempt after the assignments of
\* lines 464-479
FailedAttempt(a, fail_reason, time_remaining, ca_k, ca_cn_k, mae_k, mae_cn_k) ==
    [ a EXCEPT
      !.status = COMPLETED_FAILED,
      !.fail_reason = fail_reason,
      !.time_remaining_at_completion = time_remaining,
      !.closest_approach_points = IF ca_k # None THEN ca_k ELSE @,
      !.closest_approach_cycle_number = IF ca_k # None THEN ca_cn_k ELSE @,
      !.max_adverse_excursion_points = IF mae_k # None THEN mae_k ELSE @,
      !.mae_cycle_number = IF mae_k # None THEN mae_cn_k ELSE @ ]

TotalFailedAfter_once(total, active) == total + 1

\* "self.total_failed += 1" in the loop over active_attempts
TotalFailedAfter(total, active) == total + Len(active)

\* process_settlement(settlement_time, time_remaining = 0.0, fail_reason)
ProcessSettlement(fail_reason) ==
    /\ finished' = TRUE
    /\ settle_reason' = fail_reason
    /\ pending_limits' = << >>
    /\ attempts' =
         [k \in DOMAIN attempts |->
            IF k \in Range(active_attempts)
            THEN FailedAttempt(attempts[k], fail_reason, 0,
                               closest_approach[k], closest_approach_cn[k],
                               mae[k], mae_cn[k])
            ELSE attempts[k]]
    /\ closest_approach' =
         [k \in DOMAIN attempts |->
            IF k \in Range(active_attempts) THEN PoppedEntry(closest_approach[k])
            ELSE closest_approach[k]]
    /\ closest_approach_cn' =
         [k \in DOMAIN attempts |->
            IF k \in Range(active_attempts) THEN PoppedEntry(closest_approach_cn[k])
            ELSE closest_approach_cn[k]]
    /\ mae' = [k \in DOMAIN attempts |->
            IF k \in Range(active_attempts) THEN PoppedEntry(mae[k])
            ELSE mae[k]]
    /\ mae_cn' = [k \in DOMAIN attempts |->
            IF k \in Range(active_attempts) THEN PoppedEntry(mae_cn[k])
            ELSE mae_cn[k]]
    /\ total_failed' = TotalFailedAfter(total_failed, active_attempts)
    /\ settled' = active_attempts
    /\ active_attempts' = << >>
    /\ UNCHANGED << params, attempt_counter, total_attempts, total_pairs,
                    max_concurrent, cycles_run, snapshot, result, observed >>

FeedGapTargets_all == DOMAIN attempts

\* mark_feed_gap: "for attempt in self.active_attempts"
FeedGapTargets == Range(active_attempts)

\* mark_feed_gap (the monitor calls it instead of a cycle on a feed gap)
MarkFeedGap ==
    /\ ~finished
    /\ attempts' =
         [k \in DOMAIN attempts |->
            IF k \in FeedGapTargets
            THEN [ attempts[k] EXCEPT !.had_feed_gap = TRUE ]
            ELSE attempts[k]]
    /\ UNCHANGED << params, pending_limits, active_attempts, attempt_counter,
                    closest_approach, closest_approach_cn, mae, mae_cn,
                    total_attempts, total_pairs, total_failed, max_concurrent,
                    cycles_run, snapshot, result, settled, settle_reason, finished,
                    observed >>

Next ==
    \/ \E s \in Snapshots : EvaluateCycle(s) /\ UNCHANGED << monitor_vars, am_vars, outside_vars >>
    \/ \E r \in FailReasons : ProcessSettlement(r) /\ UNCHANGED << monitor_vars, am_vars, outside_vars >>
    \/ MarkFeedGap /\ UNCHANGED << monitor_vars, am_vars, outside_vars >>

Spec == Init /\ [][Next]_vars

(* ------------------------------------------------------------------ *)
(* market_monitor.py: MarketMonitor.run from the call of _run_cycles    *)
(* on, for one evaluator.  A step runs from one await to the next; an   *)
(* await completes, raises an exception, or raises CancelledError when  *)
(* the task was cancelled.  ws.stop() changes nothing modelled here.    *)
(* ------------------------------------------------------------------ *)

MaxCancels == 2

\* quality.feed_gap_threshold_seconds (default)
feed_gap_threshold_seconds == 10

\* ages of the feed's last message, None when no message was ever received
FeedAges == { None, 5, 12 }

\* last_message_time stays set once a message has arrived
AgesAfter(prev) == IF prev = None THEN FeedAges ELSE FeedAges \ { None }

\* _detect_feed_gap
detect_feed_gap(age) == age = None \/ age > feed_gap_threshold_seconds

\* the orderbooks before any message
EmptyBook == Snap(None, None, None, None, None, None)

MonitorSnapshots ==
    { Snap(48, 52, 48, 52, None, None),
      Snap(48, 52, 48, 52, None, 46),
      Snap(50, 54, 48, 52, 51, 49),
      Snap(44, 48, 50, 54, 46, None),
      Snap(None, 52, 48, 52, None, None) }

\* _capture_snapshot: what the books can hold given the feed's history
BooksAt(age) == IF age = None THEN { EmptyBook } ELSE MonitorSnapshots

MonitorParameterSets == { Params(1, 1, 5, 0, None), Params(1, 2, 3, 1, 3) }

evaluator_vars == << params, evaluator_state, cycles_run, snapshot, result,
                     settled, settle_reason, finished, observed >>

\* fail_reason = "bot_shutdown" if self._was_shutdown else "settlement_reached"
fail_reason_for(ws) == IF ws THEN "bot_shutdown" ELSE "settlement_reached"

\* _execute_cycle: the first await after the evaluation
after_evaluate(res) ==
    IF res.new_attempts # << >> THEN "insert_attempts"
    ELSE IF res.paired_attempts # << >> THEN "update_paired"
    ELSE "sleep"

\* database.py: the columns of an Attempts row that the properties read;
\* the INSERT writes neither fail_reason nor had_feed_gap
insert_attempts_batch(rows, keys) ==
    rows \cup { [ key |-> k, status |-> attempts[k].status,
                  fail_reason |-> "", had_feed_gap |-> FALSE ] : k \in Range(keys) }

\* UPDATE ... SET status, ..., had_feed_gap WHERE attempt_id = ?
update_attempts_paired_batch(rows, keys) ==
    { IF row.key \in Range(keys)
      THEN [ row EXCEPT !.status = attempts[row.key].status,
                        !.had_feed_gap = attempts[row.key].had_feed_gap ]
      ELSE row : row \in rows }

\* UPDATE ... SET status, fail_reason, had_feed_gap, ... WHERE attempt_id = ?
update_attempts_failed_batch(rows, keys) ==
    { IF row.key \in Range(keys)
      THEN [ row EXCEPT !.status = attempts[row.key].status,
                        !.fail_reason = attempts[row.key].fail_reason,
                        !.had_feed_gap = attempts[row.key].had_feed_gap ]
      ELSE row : row \in rows }

\* _run_cycles: "if time_remaining <= 0: break"
TimeIsUp_strict(time_remaining) == time_remaining < 0

TimeIsUp(time_remaining) == time_remaining <= 0

\* time_remaining after one more cycle interval has been slept
RemainingAfterSleep == loop_remaining - (elapsed + 1)

\* run(), lines 186-194: _run_cycles is left, _process_settlement is entered
\* and runs to its await
LoopEnds_unless_error(ws, why) ==
    /\ was_shutdown' = ws
    /\ loop_end' = why
    /\ IF why = "error"
       THEN /\ pc' = "write_summary"
            /\ UNCHANGED evaluator_vars
       ELSE /\ ProcessSettlement(fail_reason_for(ws))
            /\ pc' = IF active_attempts # << >> THEN "update_failed"
                     ELSE "write_summary"

LoopEnds(ws, why) ==
    /\ was_shutdown' = ws
    /\ loop_end' = why
    /\ ProcessSettlement(fail_reason_for(ws))
    /\ pc' = IF active_attempts # << >> THEN "update_failed" ELSE "write_summary"

\* main(): shutdown_event.set()
RequestShutdown ==
    /\ pc \notin { "done", "raised", "cancelled" }
    /\ ~shutdown
    /\ shutdown' = TRUE
    /\ UNCHANGED << evaluator_vars, pc, was_shutdown, loop_end, cancels, elapsed,
                    feed_age, store, summary_written >>
    /\ UNCHANGED << am_vars, outside_vars >>

\* _run_cycles: "Run the first cycle immediately"
ExecuteFirstCycle(s, age) ==
    /\ pc = "first_cycle"
    /\ EvaluateCycle(s)
    /\ feed_age' = age
    /\ pc' = after_evaluate(result')
    /\ UNCHANGED << was_shutdown, loop_end, shutdown, cancels, elapsed, store,
                    summary_written >>
    /\ UNCHANGED << am_vars, outside_vars >>

\* _interruptible_sleep returns True
SleepShutdown ==
    /\ pc = "sleep"
    /\ shutdown
    /\ LoopEnds(TRUE, "shutdown")
    /\ UNCHANGED << shutdown, cancels, elapsed, feed_age, store, summary_written >>
    /\ UNCHANGED << am_vars, outside_vars >>

\* the sleep times out and time_remaining <= 0
SettlementReached ==
    /\ pc = "sleep"
    /\ ~shutdown
    /\ TimeIsUp(RemainingAfterSleep)
    /\ elapsed' = elapsed + 1
    /\ LoopEnds(was_shutdown, "settlement")
    /\ UNCHANGED << shutdown, cancels, feed_age, store, summary_written >>
    /\ UNCHANGED << am_vars, outside_vars >>

\* the sleep times out, time remains, _detect_feed_gap() is true
FeedGapSkip(age) ==
    /\ pc = "sleep"
    /\ ~shutdown
    /\ ~TimeIsUp(RemainingAfterSleep)
    /\ detect_feed_gap(age)
    /\ elapsed' = elapsed + 1
    /\ feed_age' = age
    /\ MarkFeedGap
    /\ UNCHANGED << pc, was_shutdown, loop_end, shutdown, cancels, store,
                    summary_written >>
    /\ UNCHANGED << am_vars, outside_vars >>

\* the sleep times out, time remains, the feed is fresh: _execute_cycle
ExecuteCycle(s, age) ==
    /\ pc = "sleep"
    /\ ~shutdown
    /\ ~TimeIsUp(RemainingAfterSleep)
    /\ ~detect_feed_gap(age)
    /\ elapsed' = elapsed + 1
    /\ feed_age' = age
    /\ EvaluateCycle(s)
    /\ pc' = after_evaluate(result')
    /\ UNCHANGED << was_shutdown, loop_end, shutdown, cancels, store,
                    summary_written >>
    /\ UNCHANGED << am_vars, outside_vars >>

\* await self.db.insert_attempts_batch(all_new_attempts) completes
InsertAttemptsOk ==
    /\ pc = "insert_attempts"
    /\ store' = insert_attempts_batch(store, result.new_attempts)
    /\ pc' = IF result.paired_attempts # << >> THEN "update_paired" ELSE "sleep"
    /\ UNCHANGED << evaluator_vars, was_shutdown, loop_end, shutdown, cancels,
                    elapsed, feed_age, summary_written >>
    /\ UNCHANGED << am_vars, outside_vars >>

\* await self.db.update_attempts_paired_batch(all_paired_attempts) completes
UpdatePairedOk ==
    /\ pc = "update_paired"
    /\ store' = update_attempts_paired_batch(store, result.paired_attempts)
    /\ pc' = "sleep"
    /\ UNCHANGED << evaluator_vars, was_shutdown, loop_end, shutdown, cancels,
                    elapsed, feed_age, summary_written >>
    /\ UNCHANGED << am_vars, outside_vars >>

\* an await of _run_cycles raises an exception: "except Exception" in run()
ErrorInCycle ==
    /\ pc \in { "insert_attempts", "update_paired" }
    /\ LoopEnds(was_shutdown, "error")
    /\ UNCHANGED << shutdown, cancels, elapsed, feed_age, store, summary_written >>
    /\ UNCHANGED << am_vars, outside_vars >>

\* an await of _run_cycles raises CancelledError: "except CancelledError"
CancelledInCycle ==
    /\ pc \in { "sleep", "insert_attempts", "update_paired" }
    /\ cancels < MaxCancels
    /\ cancels' = cancels + 1
    /\ LoopEnds(TRUE, "cancelled")
    /\ UNCHANGED << shutdown, elapsed, feed_age, store, summary_written >>
    /\ UNCHANGED << am_vars, outside_vars >>

\* _process_settlement: await self.db.update_attempts_failed_batch(all_failed)
UpdateFailedOk ==
    /\ pc = "update_failed"
    /\ store' = update_attempts_failed_batch(store, settled)
    /\ pc' = "write_summary"
    /\ UNCHANGED << evaluator_vars, was_shutdown, loop_end, shutdown, cancels,
                    elapsed, feed_age, summary_written >>
    /\ UNCHANGED << am_vars, outside_vars >>

\* await self._write_summary(summary) completes; run() returns
WriteSummaryOk ==
    /\ pc = "write_summary"
    /\ summary_written' = TRUE
    /\ pc' = "done"
    /\ UNCHANGED << evaluator_vars, was_shutdown, loop_end, shutdown, cancels,
                    elapsed, feed_age, store >>
    /\ UNCHANGED << am_vars, outside_vars >>

\* an await after the try block raises an exception: it leaves run()
ErrorAfterLoop ==
    /\ pc \in { "update_failed", "write_summary" }
    /\ pc' = "raised"
    /\ UNCHANGED << evaluator_vars, was_shutdown, loop_end, shutdown, cancels,
                    elapsed, feed_age, store, summary_written >>
    /\ UNCHANGED << am_vars, outside_vars >>

\* an await after the try block raises CancelledError: it leaves run()
CancelledAfterLoop ==
    /\ pc \in { "update_failed", "write_summary" }
    /\ cancels < MaxCancels
    /\ cancels' = cancels + 1
    /\ pc' = "cancelled"
    /\ UNCHANGED << evaluator_vars, was_shutdown, loop_end, shutdown, elapsed,
                    feed_age, store, summary_written >>
    /\ UNCHANGED << am_vars, outside_vars >>

MonitorInit == Init /\ params \in MonitorParameterSets

MonitorNext ==
    \/ RequestShutdown
    \/ \E age \in FeedAges : \E s \in BooksAt(age) : ExecuteFirstCycle(s, age)
    \/ SleepShutdown
    \/ SettlementReached
    \/ \E age \in AgesAfter(feed_age) : FeedGapSkip(age)
    \/ \E age \in AgesAfter(feed_age) : \E s \in BooksAt(age) : ExecuteCycle(s, age)
    \/ InsertAttemptsOk
    \/ UpdatePairedOk
    \/ ErrorInCycle
    \/ CancelledInCycle
    \/ UpdateFailedOk
    \/ WriteSummaryOk
    \/ ErrorAfterLoop
    \/ CancelledAfterLoop

MonitorSpec == MonitorInit /\ [][MonitorNext]_vars

(* ------------------------------------------------------------------ *)
(* MarketMonitor.run from its entry: the early return, the feed         *)
(* connection, the wait for the first books, the market row, then the   *)
(* cycle loop above.  Time is counted in cycle intervals.               *)
(* ------------------------------------------------------------------ *)

\* settlement - now at the entry of run(): the market may have settled already
StartRemaining == { -1, 0, 1, 2, 3 }

\* intervals an await of the prelude may take
PreludeDelays == { 0, 1 }

not_run_vars == << evaluator_vars, monitor_vars, am_vars, store_vars, feed_vars,
                  sup_vars, conn_vars >>

\* AssetManager.run: a MarketMonitor is constructed for the discovered market
ConstructMonitor ==
    /\ run_pc = "cycles"
    /\ pc = "first_cycle"
    /\ ~shutdown
    /\ run_pc' = "entry"
    /\ remaining_at_start' = 0
    /\ prelude_time' = 0
    /\ loop_remaining' = 0
    /\ ws_connected' = FALSE
    /\ market_row' = FALSE
    /\ UNCHANGED not_run_vars

\* run(): "if self.time_remaining_at_start <= 0"
AlreadySettled_strict(time_remaining) == time_remaining < 0

AlreadySettled(time_remaining) == time_remaining <= 0

\* run(): time_remaining_at_start is computed; a settled market returns
\* _build_summary() at once, any other goes on to connect_and_subscribe
EnterRun(r) ==
    /\ run_pc = "entry"
    /\ remaining_at_start' = r
    /\ run_pc' = IF AlreadySettled(r) THEN "returned_early" ELSE "connect"
    /\ UNCHANGED << prelude_time, loop_remaining, ws_connected, market_row >>
    /\ UNCHANGED not_run_vars

\* connect_and_subscribe returns
ConnectOk(d) ==
    /\ run_pc = "connect"
    /\ ws_connected' = TRUE
    /\ prelude_time' = prelude_time + d
    /\ run_pc' = "initial_data"
    /\ UNCHANGED << remaining_at_start, loop_remaining, market_row >>
    /\ UNCHANGED not_run_vars

\* connect_and_subscribe raises: "except Exception: return self._build_summary()"
ConnectFails(d) ==
    /\ run_pc = "connect"
    /\ prelude_time' = prelude_time + d
    /\ run_pc' = "returned_no_feed"
    /\ UNCHANGED << remaining_at_start, loop_remaining, ws_connected, market_row >>
    /\ UNCHANGED not_run_vars

\* _wait_for_initial_data returns, with the books or after its timeout
InitialData(d) ==
    /\ run_pc = "initial_data"
    /\ prelude_time' = prelude_time + d
    /\ run_pc' = "insert_market"
    /\ UNCHANGED << remaining_at_start, loop_remaining, ws_connected, market_row >>
    /\ UNCHANGED not_run_vars

\* insert_market returns and _run_cycles is entered
InsertMarketOk ==
    /\ run_pc = "insert_market"
    /\ market_row' = TRUE
    /\ loop_remaining' = remaining_at_start - prelude_time
    /\ run_pc' = "cycles"
    /\ UNCHANGED << remaining_at_start, prelude_time, ws_connected >>
    /\ UNCHANGED not_run_vars

\* an await before the cycle loop is cancelled, or insert_market raises:
\* nothing in run() catches it there
PreludeAborted ==
    /\ run_pc \in { "connect", "initial_data", "insert_market" }
    /\ run_pc' = "aborted"
    /\ UNCHANGED << remaining_at_start, prelude_time, loop_remaining,
                    ws_connected, market_row >>
    /\ UNCHANGED not_run_vars

\* run() has returned a summary built by _build_summary
SummaryBuilt ==
    \/ run_pc \in { "returned_early", "returned_no_feed" }
    \/ run_pc = "cycles" /\ pc \in { "write_summary", "done" }

RunInit == MonitorInit

RunNext ==
    \/ ConstructMonitor
    \/ \E r \in StartRemaining : EnterRun(r)
    \/ \E d \in PreludeDelays : ConnectOk(d)
    \/ \E d \in PreludeDelays : ConnectFails(d)
    \/ \E d \in PreludeDelays : InitialData(d)
    \/ InsertMarketOk
    \/ PreludeAborted
    \/ run_pc = "cycles" /\ MonitorNext

RunSpec == RunInit /\ [][RunNext]_vars

(* ------------------------------------------------------------------ *)
(* AssetManager: discover -> monitor -> rotate                          *)
(* MarketMonitor.run is one await here: it returns a summary or raises. *)
(* ------------------------------------------------------------------ *)

MAX_DISCOVERY_RETRIES == 40
DISCOVERY_RETRY_BASE_DELAY == 2

\* markets one manager monitors before discovery only misses
MaxMarkets == 2

\* delay = DISCOVERY_RETRY_BASE_DELAY + attempt   (the cap left out)
RetryDelay_uncapped(k) == DISCOVERY_RETRY_BASE_DELAY + k

\* delay = min(5, DISCOVERY_RETRY_BASE_DELAY + attempt)
RetryDelay(k) ==
    IF 5 < DISCOVERY_RETRY_BASE_DELAY + k THEN 5 ELSE DISCOVERY_RETRY_BASE_DELAY + k

not_am_vars == << evaluator_vars, pc, was_shutdown, loop_end, cancels, elapsed,
                  feed_age, store, summary_written, shutdown, outside_vars >>

\* run() leaves its while loop: the finally block awaits _discovery.close()
LeaveLoop(why) ==
    /\ am_pc' = "closing"
    /\ am_exit' = why

\* while not self._shutdown.is_set(): ... await self._discover_with_retry()
AmLoopCheck ==
    /\ am_pc = "loop_check"
    /\ IF shutdown
       THEN /\ LeaveLoop("shutdown")
            /\ UNCHANGED << attempt, discovery_calls, delay >>
       ELSE /\ am_pc' = "retry_check"
            /\ attempt' = 0
            /\ discovery_calls' = 0
            /\ delay' = None
            /\ UNCHANGED am_exit
    /\ UNCHANGED << markets_monitored, am_cancelled, not_am_vars >>

\* for attempt in range(MAX_DISCOVERY_RETRIES): if shutdown: return None
\* ... await self._discover_next_market();  after the loop: return None
\* run(): if market_info is None: break
AmRetryCheck ==
    /\ am_pc = "retry_check"
    /\ IF attempt >= MAX_DISCOVERY_RETRIES \/ shutdown
       THEN /\ LeaveLoop("no_market")
            /\ UNCHANGED discovery_calls
       ELSE /\ am_pc' = "discovering"
            /\ discovery_calls' = discovery_calls + 1
            /\ UNCHANGED am_exit
    /\ UNCHANGED << attempt, delay, markets_monitored, am_cancelled, not_am_vars >>

\* _discover_next_market returns a market: run() goes on to monitor.run()
AmDiscoverFound ==
    /\ am_pc = "discovering"
    /\ markets_monitored < MaxMarkets
    /\ am_pc' = "monitoring"
    /\ UNCHANGED << attempt, discovery_calls, delay, markets_monitored,
                    am_cancelled, am_exit, not_am_vars >>

\* _discover_next_market returns None: wait_for(shield(shutdown.wait()), delay)
AmDiscoverMiss ==
    /\ am_pc = "discovering"
    /\ delay' = RetryDelay(attempt)
    /\ am_pc' = "waiting"
    /\ UNCHANGED << attempt, discovery_calls, markets_monitored, am_cancelled,
                    am_exit, not_am_vars >>

\* the shutdown event ends the wait: return None
AmWaitShutdown ==
    /\ am_pc = "waiting"
    /\ shutdown
    /\ LeaveLoop("no_market")
    /\ UNCHANGED << attempt, discovery_calls, delay, markets_monitored,
                    am_cancelled, not_am_vars >>

\* except asyncio.TimeoutError: pass  -- the next iteration of the for loop
\* (the timeout may win the race against an event set at the same moment)
AmWaitTimeout ==
    /\ am_pc = "waiting"
    /\ attempt' = attempt + 1
    /\ am_pc' = "retry_check"
    /\ UNCHANGED << discovery_calls, delay, markets_monitored, am_cancelled,
                    am_exit, not_am_vars >>

\* summary = await monitor.run() returns; _summaries.append(summary);
\* if not self._shutdown.is_set(): await asyncio.sleep(1)
\* (c: a CancelledError was caught inside MarketMonitor.run)
AmMonitorReturns(c) ==
    /\ am_pc = "monitoring"
    /\ markets_monitored' = markets_monitored + 1
    /\ am_cancelled' = (am_cancelled \/ c)
    /\ am_pc' = IF shutdown THEN "loop_check" ELSE "pause"
    /\ UNCHANGED << attempt, discovery_calls, delay, am_exit, not_am_vars >>

\* monitor.run() raises an exception: run() has no handler for it
AmMonitorRaises ==
    /\ am_pc = "monitoring"
    /\ LeaveLoop("monitor_error")
    /\ UNCHANGED << attempt, discovery_calls, delay, markets_monitored,
                    am_cancelled, not_am_vars >>

\* await asyncio.sleep(1) completes
AmPauseDone ==
    /\ am_pc = "pause"
    /\ am_pc' = "loop_check"
    /\ UNCHANGED << attempt, discovery_calls, delay, markets_monitored,
                    am_cancelled, am_exit, not_am_vars >>

\* an await of run() raises CancelledError: except asyncio.CancelledError
AmCancelled ==
    /\ am_pc \in { "discovering", "waiting", "monitoring", "pause" }
    /\ am_cancelled' = TRUE
    /\ LeaveLoop("cancelled")
    /\ UNCHANGED << attempt, discovery_calls, delay, markets_monitored,
                    not_am_vars >>

\* finally: await self._discovery.close(); self._status = "stopped"
AmClose ==
    /\ am_pc = "closing"
    /\ am_pc' = "stopped"
    /\ UNCHANGED << attempt, discovery_calls, delay, markets_monitored,
                    am_cancelled, am_exit, not_am_vars >>

\* the steps of the manager's own task
AmStep ==
    \/ AmLoopCheck
    \/ AmRetryCheck
    \/ AmDiscoverFound
    \/ AmDiscoverMiss
    \/ AmWaitShutdown
    \/ AmWaitTimeout
    \/ \E c \in BOOLEAN : AmMonitorReturns(c)
    \/ AmMonitorRaises
    \/ AmPauseDone
    \/ AmClose

AssetInit == MonitorInit

AssetNext ==
    \/ RequestShutdown
    \/ AmCancelled
    \/ AmLoopCheck
    \/ AmRetryCheck
    \/ AmDiscoverFound
    \/ AmDiscoverMiss
    \/ AmWaitShutdown
    \/ AmWaitTimeout
    \/ \E c \in BOOLEAN : AmMonitorReturns(c)
    \/ AmMonitorRaises
    \/ AmPauseDone
    \/ AmClose

\* every await of the manager completes: the HTTP calls and the waits
\* have timeouts
AssetSpec == AssetInit /\ [][AssetNext]_vars /\ WF_vars(AmStep)

(* ------------------------------------------------------------------ *)
(* database.py: one Database shared by the monitors of two assets.      *)
(* A step is one await of a store call: a statement, or the commit.     *)
(* An awaited statement completes or raises (an error of the store, or  *)
(* CancelledError).  SQLite: one connection, writes under _write_lock,  *)
(* no rollback anywhere.  PostgreSQL: one pooled connection per call;   *)
(* a single statement commits itself, conn.transaction() commits on a   *)
(* normal exit and rolls back on an exception.                          *)
(* ------------------------------------------------------------------ *)

\* store calls explored, over all writers
MaxCalls == 3

\* attempts a cycle can create for one evaluator
BatchSizes == {1, 2}

not_store_vars == << evaluator_vars, monitor_vars, am_vars, feed_vars, sup_vars,
                    run_vars, conn_vars >>

NextRowId_reused(seq) == IF seq = 0 THEN 1 ELSE seq

\* attempt_id INTEGER PRIMARY KEY AUTOINCREMENT / the Attempts id sequence
NextRowId(seq) == seq + 1

AttemptRow(id, w, b) == [ attempt_id |-> id, writer |-> w, batch |-> b ]

\* a Markets row: the columns insert_market supplies (call: the call that
\* supplied them) and the summary columns (0: the column defaults)
MarketRow(id, call, summary) ==
    [ market_id |-> id, supplied |-> call, summary |-> summary ]

\* INSERT OR REPLACE INTO Markets (supplied columns): the row with the same
\* primary key is deleted, the new row has defaults in the other columns
InsertOrReplace(tbl, id, call) ==
    { r \in tbl : r.market_id # id } \cup { MarketRow(id, call, 0) }

\* INSERT ... ON CONFLICT (market_id) DO UPDATE SET supplied = EXCLUDED.supplied
OnConflictDoUpdate(tbl, id, call) ==
    IF \E r \in tbl : r.market_id = id
    THEN { IF r.market_id = id THEN [ r EXCEPT !.supplied = call ] ELSE r :
           r \in tbl }
    ELSE tbl \cup { MarketRow(id, call, 0) }

\* UPDATE Markets SET summary columns WHERE market_id = id
UpdateSummary(tbl, id, call) ==
    { IF r.market_id = id THEN [ r EXCEPT !.summary = call ] ELSE r : r \in tbl }

\* main(): db = Database(database_url, ...); await db.initialize()
Initialize(postgres) ==
    /\ ~db_open
    /\ \A w \in Writers : w_calls[w] = 0
    /\ db_open' = TRUE
    /\ is_postgres' = postgres
    /\ UNCHANGED << write_lock, rowid_seq, db_attempts, db_markets, sq_rows,
                    sq_markets, pg_rows, w_pc, w_op, w_ids, w_calls,
                    failed_batches, not_store_vars >>

\* a monitor enters a store call: "async with self._write_lock" (SQLite,
\* waits while the lock is held) or "async with self._pool.acquire()"
BeginCall(w, kind, n) ==
    /\ db_open
    /\ w_pc[w] = "idle"
    /\ w_calls[1] + w_calls[2] < MaxCalls
    /\ is_postgres \/ write_lock = 0
    /\ write_lock' = IF is_postgres THEN write_lock ELSE w
    /\ w_calls' = [w_calls EXCEPT ![w] = @ + 1]
    /\ w_op' = [w_op EXCEPT ![w] =
                  [ kind |-> kind, n |-> n, i |-> 0, b |-> w_calls[w] + 1 ]]
    /\ w_pc' = [w_pc EXCEPT ![w] = "statement"]
    /\ UNCHANGED << db_open, is_postgres, rowid_seq, db_attempts, db_markets,
                    sq_rows, sq_markets, pg_rows, w_ids, failed_batches,
                    not_store_vars >>

\* insert_attempts_batch: one INSERT of the loop, attempt.attempt_id = the
\* id the store returned
InsertRow(w) ==
    /\ w_pc[w] = "statement"
    /\ w_op[w].kind = "insert_attempts_batch"
    /\ \E id \in { NextRowId(rowid_seq) } :
          /\ rowid_seq' = id
          /\ w_ids' = [w_ids EXCEPT ![w] = Append(@, id)]
          /\ IF is_postgres
             THEN /\ pg_rows' = [pg_rows EXCEPT ![w] =
                                   @ \cup { AttemptRow(id, w, w_op[w].b) }]
                  /\ UNCHANGED sq_rows
             ELSE /\ sq_rows' = sq_rows \cup { AttemptRow(id, w, w_op[w].b) }
                  /\ UNCHANGED pg_rows
    /\ w_op' = [w_op EXCEPT ![w].i = @ + 1]
    /\ w_pc' = [w_pc EXCEPT ![w] =
                  IF w_op[w].i + 1 = w_op[w].n THEN "commit" ELSE "statement"]
    /\ UNCHANGED << db_open, is_postgres, write_lock, db_attempts, db_markets,
                    sq_markets, w_calls, failed_batches, not_store_vars >>

\* the statement of insert_market or update_market_summary (_execute)
MarketStatement(w) ==
    /\ w_pc[w] = "statement"
    /\ w_op[w].kind \in { "insert_market", "update_market_summary" }
    /\ IF is_postgres
       THEN /\ db_markets' =
                 IF w_op[w].kind = "insert_market"
                 THEN OnConflictDoUpdate(db_markets, w, w_op[w].b)
                 ELSE UpdateSummary(db_markets, w, w_op[w].b)
            /\ w_pc' = [w_pc EXCEPT ![w] = "idle"]
            /\ w_op' = [w_op EXCEPT ![w] = NoOp]
            /\ UNCHANGED sq_markets
       ELSE /\ sq_markets' =
                 IF w_op[w].kind = "insert_market"
                 THEN InsertOrReplace(sq_markets, w, w_op[w].b)
                 ELSE UpdateSummary(sq_markets, w, w_op[w].b)
            /\ w_pc' = [w_pc EXCEPT ![w] = "commit"]
            /\ UNCHANGED << db_markets, w_op >>
    /\ UNCHANGED << db_open, is_postgres, write_lock, rowid_seq, db_attempts,
                    sq_rows, pg_rows, w_ids, w_calls, failed_batches,
                    not_store_vars >>

\* an awaited statement raises: the "async with" blocks are left.  SQLite:
\* the lock is released, nothing is rolled back.  PostgreSQL: the
\* transaction of the call is rolled back.
StatementRaises(w) ==
    /\ w_pc[w] = "statement"
    /\ write_lock' = IF is_postgres THEN write_lock ELSE 0
    /\ pg_rows' = [pg_rows EXCEPT ![w] = {}]
    /\ failed_batches' =
         IF w_op[w].kind = "insert_attempts_batch"
         THEN failed_batches \cup { << w, w_op[w].b >> }
         ELSE failed_batches
    /\ w_pc' = [w_pc EXCEPT ![w] = "idle"]
    /\ w_op' = [w_op EXCEPT ![w] = NoOp]
    /\ UNCHANGED << db_open, is_postgres, rowid_seq, db_attempts, db_markets,
                    sq_rows, sq_markets, w_ids, w_calls, not_store_vars >>

\* SQLite: await self._db.commit() commits the connection's transaction;
\* PostgreSQL: conn.transaction() is left normally
Commit(w) ==
    /\ w_pc[w] = "commit"
    /\ IF is_postgres
       THEN /\ db_attempts' = db_attempts \cup pg_rows[w]
            /\ pg_rows' = [pg_rows EXCEPT ![w] = {}]
            /\ UNCHANGED << db_markets, sq_rows, write_lock >>
       ELSE /\ db_attempts' = db_attempts \cup sq_rows
            /\ sq_rows' = {}
            /\ db_markets' = sq_markets
            /\ write_lock' = 0
            /\ UNCHANGED pg_rows
    /\ w_pc' = [w_pc EXCEPT ![w] = "idle"]
    /\ w_op' = [w_op EXCEPT ![w] = NoOp]
    /\ UNCHANGED << db_open, is_postgres, rowid_seq, sq_markets, w_ids, w_calls,
                    failed_batches, not_store_vars >>

StoreNext ==
    \/ \E postgres \in BOOLEAN : Initialize(postgres)
    \/ \E w \in Writers : \E n \in BatchSizes :
          BeginCall(w, "insert_attempts_batch", n)
    \/ \E w \in Writers : BeginCall(w, "insert_market", 1)
    \/ \E w \in Writers : BeginCall(w, "update_market_summary", 1)
    \/ \E w \in Writers : InsertRow(w)
    \/ \E w \in Writers : MarketStatement(w)
    \/ \E w \in Writers : StatementRaises(w)
    \/ \E w \in Writers : Commit(w)

StoreInit == Init /\ params = Params(1, 1, 5, 0, None)

StoreSpec == StoreInit /\ [][StoreNext]_vars

(* ------------------------------------------------------------------ *)
(* Vocabulary of the properties                                         *)
(* ------------------------------------------------------------------ *)

Keys == DOMAIN attempts

IsPaired(k) == attempts[k].status = COMPLETED_PAIRED

\* the step is an evaluate_cycle call that was not skipped
ValidCycleStep == cycles_run' = cycles_run + 1 /\ ~result'.skipped

\* the period-low ask of a side as the snapshot carries it, the current ask
\* when the snapshot carries none
ObservedLowAsk(s, side) ==
    IF side = YES
    THEN (IF s.yes_period_low_ask_points \in {None, 0}
          THEN s.yes_ask_points ELSE s.yes_period_low_ask_points)
    ELSE (IF s.no_period_low_ask_points \in {None, 0}
          THEN s.no_ask_points ELSE s.no_period_low_ask_points)

ObservedBid(s, side) == IF side = YES THEN s.yes_bid_points ELSE s.no_bid_points

ObservedAsk(s, side) == IF side = YES THEN s.yes_ask_points ELSE s.no_ask_points

FloorToTick(x, tick) == (x \div tick) * tick

\* the first-leg limit the cycle computes for a side from the current book:
\* clamp(min(floor(mid - S0), floor(ask - maker_buffer))) to [tick, 99]
FreshLimit(p, s, side) ==
    LET from_ref ==
            ((ObservedBid(s, side) + ObservedAsk(s, side) - 2 * p.S0_points)
                \div (2 * p.tick)) * p.tick
        from_buffer == FloorToTick(ObservedAsk(s, side) - p.maker_buffer_points, p.tick)
        m == IF from_ref <= from_buffer THEN from_ref ELSE from_buffer
    IN  IF m < p.tick THEN p.tick ELSE IF m > 99 THEN 99 ELSE m

\* the limits of a side carried into the step from earlier cycles
CarriedLimits(side) ==
    { pending_limits[i].limit_price_points :
        i \in { j \in DOMAIN pending_limits : pending_limits[j].side = side } }

\* the attempts the step created on a side
CreatedOn(side) ==
    { k \in Range(result'.new_attempts) : attempts'[k].first_leg_side = side }

\* the ASK_TOUCH trigger level: clamp(floor_to_tick(100 + S0 - opposite ask))
AskTouchTrigger(p, s, side) ==
    LET raw == FloorToTick(100 + p.S0_points - ObservedAsk(s, opposite(side)), p.tick)
    IN  IF raw < p.tick THEN p.tick ELSE IF raw > 99 THEN 99 ELSE raw

(* ------------------------------------------------------------------ *)
(* C1  Every completed_paired attempt has                               *)
(*     pair_cost_points = P1_points + actual_opposite_price and         *)
(*     pair_profit_points = 100 - pair_cost_points.                     *)
(* ------------------------------------------------------------------ *)
C1_PairCostAndProfit ==
    \A k \in Keys :
        IsPaired(k) =>
            /\ attempts[k].pair_cost_points =
                  attempts[k].P1_points + attempts[k].actual_opposite_price
            /\ attempts[k].pair_profit_points = 100 - attempts[k].pair_cost_points

C1_Witness == \E k \in Keys : IsPaired(k) /\ attempts[k].pair_profit_points > 0

(* ------------------------------------------------------------------ *)
(* C2  Every completed_paired attempt has pair_profit_points >= the     *)
(*     delta_points of its parameter set, for every tick size >= 1.     *)
(*     (Fails: with a tick that does not divide pair_cap - P1 the       *)
(*     opposite maximum is raised to one tick.)                         *)
(* ------------------------------------------------------------------ *)
C2_ProfitAtLeastDelta ==
    \A k \in Keys :
        IsPaired(k) => attempts[k].pair_profit_points >= params.delta_points

(* ------------------------------------------------------------------ *)
(* C3  Every attempt has opposite_max_points =                          *)
(*     clamp(floor_to_tick(pair_cap - P1), tick, 100) and               *)
(*     P1_points + opposite_max_points <= pair_cap_points.              *)
(*     (Fails in its second half, for the reason of C2.)                *)
(* ------------------------------------------------------------------ *)
C3_OppositeMaxWithinCap ==
    \A k \in Keys :
        LET cap == 100 - params.delta_points
            raw == FloorToTick(cap - attempts[k].P1_points, params.tick)
            clamped == IF raw < params.tick THEN params.tick
                       ELSE IF raw > 100 THEN 100 ELSE raw
        IN  /\ attempts[k].opposite_max_points = clamped
            /\ attempts[k].P1_points + attempts[k].opposite_max_points <= cap

C5_AskTouchTrigger ==
    [][ ValidCycleStep =>
          \A side \in Side :
              LET trigger == AskTouchTrigger(params, snapshot', side)
              IN  /\ (CreatedOn(side) # {}) <=>
                        (/\ ObservedLowAsk(snapshot', side) <= trigger
                         /\ trigger < 100 - params.delta_points)
                  /\ \A k \in CreatedOn(side) : attempts'[k].P1_points = trigger
      ]_vars

(* ------------------------------------------------------------------ *)
(* C5  (amended) In a valid cycle an attempt is created on a side iff   *)
(*     (a) a first-leg limit carried from an earlier cycle is >= the    *)
(*     side's low ask, or (b) no carried limit is, and the limit        *)
(*     computed from the current book,                                  *)
(*     clamp_trigger(min(floor_to_tick(mid - S0),                       *)
(*                       floor_to_tick(ask - maker_buffer))),           *)
(*     is < pair_cap and >= the side's low ask; the attempt's           *)
(*     P1_points is the limit that filled.                              *)
(* ------------------------------------------------------------------ *)
C5_LimitFill ==
    [][ ValidCycleStep =>
          \A side \in Side :
              LET low == ObservedLowAsk(snapshot', side)
                  fresh == FreshLimit(params, snapshot', side)
                  delayed == \E l \in CarriedLimits(side) : low <= l
                  same_cycle == /\ ~delayed
                                /\ fresh < 100 - params.delta_points
                                /\ low <= fresh
              IN  /\ (CreatedOn(side) # {}) <=> (delayed \/ same_cycle)
                  /\ \A k \in CreatedOn(side) :
                        IF delayed
                        THEN attempts'[k].P1_points \in CarriedLimits(side)
                        ELSE attempts'[k].P1_points = fresh
      ]_vars

\* a cycle has filled a carried limit, and a later cycle a limit of the same cycle
C5_Witness ==
    /\ \E k \in Keys : attempts[k].cycles_to_fill_first_leg >= 1
    /\ \E k \in Range(result.new_attempts) :
          attempts[k].cycles_to_fill_first_leg = 0

(* ------------------------------------------------------------------ *)
(* C6  In a valid cycle, if a side's period-low ask is <= a first-leg   *)
(*     limit of that side (the carried one, or the one computed in the  *)
(*     cycle) and that level is < pair_cap, an attempt is created on    *)
(*     that side in the cycle, also when the side's current ask is      *)
(*     above the level.                                                 *)
(* ------------------------------------------------------------------ *)
C6_PeriodLowFires ==
    [][ ValidCycleStep =>
          \A side \in Side :
              \A level \in CarriedLimits(side)
                             \cup {FreshLimit(params, snapshot', side)} :
                  (/\ ObservedLowAsk(snapshot', side) <= level
                   /\ level < 100 - params.delta_points)
                  => CreatedOn(side) # {}
      ]_vars

\* the last cycle created an attempt at a level the period low reached
\* while the current ask was above it
C6_Witness ==
    \E k \in Range(result.new_attempts) :
        LET side == attempts[k].first_leg_side
            low == IF side = YES THEN snapshot.yes_period_low_ask_points
                   ELSE snapshot.no_period_low_ask_points
        IN  /\ low # None
            /\ low <= attempts[k].P1_points
            /\ ObservedAsk(snapshot, side) > attempts[k].P1_points

(* ------------------------------------------------------------------ *)
(* C7  When a cycle creates attempts on both sides, new_attempts lists  *)
(*     first the attempt with the larger (trigger - period-low ask),    *)
(*     the YES attempt first when the distances are equal, and both     *)
(*     attempts exist after the cycle.                                  *)
(*     (Fails: on a tie the attempt created first stays first, and      *)
(*     that is the NO attempt when NO filled a carried limit.)          *)
(* ------------------------------------------------------------------ *)
C7_TieBreakYesFirst ==
    Len(result.new_attempts) = 2 =>
        LET k0 == result.new_attempts[1]
            k1 == result.new_attempts[2]
            d0 == attempts[k0].P1_points
                    - ObservedLowAsk(snapshot, attempts[k0].first_leg_side)
            d1 == attempts[k1].P1_points
                    - ObservedLowAsk(snapshot, attempts[k1].first_leg_side)
        IN  /\ k0 \in Keys /\ k1 \in Keys
            /\ attempts[k0].first_leg_side # attempts[k1].first_leg_side
            /\ d0 >= d1
            /\ (d0 = d1) => attempts[k0].first_leg_side = YES

(* ------------------------------------------------------------------ *)
(* C8  In a valid cycle every active attempt (carried or just created)  *)
(*     whose opposite-side low ask is <= opposite_trigger_points        *)
(*     becomes completed_paired with actual_opposite_price =            *)
(*     opposite_trigger_points, is in paired_attempts and leaves        *)
(*     active_attempts; every other active attempt stays active.        *)
(* ------------------------------------------------------------------ *)
C8_PairingSweep ==
    [][ ValidCycleStep =>
          \A k \in Range(active_attempts) \cup Range(result'.new_attempts) :
              LET a == attempts'[k]
              IN  IF ObservedLowAsk(snapshot', a.opposite_side)
                        <= a.opposite_trigger_points
                  THEN /\ a.status = COMPLETED_PAIRED
                       /\ a.actual_opposite_price = a.opposite_trigger_points
                       /\ k \in Range(result'.paired_attempts)
                       /\ k \notin Range(active_attempts')
                  ELSE /\ a.status = ACTIVE
                       /\ k \in Range(active_attempts')
                       /\ k \notin Range(result'.paired_attempts)
      ]_vars

\* the last cycle paired an attempt of an earlier cycle exactly at its
\* trigger and left another attempt active
C8_Witness ==
    /\ \E k \in Range(result.paired_attempts) :
          /\ attempts[k].cycle_number < cycles_run
          /\ ObservedLowAsk(snapshot, attempts[k].opposite_side)
                = attempts[k].opposite_trigger_points
    /\ active_attempts # << >>
    /\ ~finished

(* ------------------------------------------------------------------ *)
(* C9  For an active attempt of a parameter set with a stop loss, in a  *)
(*     valid cycle where the first-leg bid is <= P1_points -            *)
(*     stop_loss_threshold_points, the attempt becomes completed_failed *)
(*     with fail_reason "stop_loss", pair_cost_points = P1_points and   *)
(*     pair_profit_points = -stop_loss_threshold_points.                *)
(*     (Fails: evaluate_cycle has no stop-loss sweep.)                  *)
(* ------------------------------------------------------------------ *)
StopLossHit(a, s) ==
    /\ params.stop_loss_threshold_points # None
    /\ ObservedBid(s, a.first_leg_side)
          <= a.P1_points - params.stop_loss_threshold_points

C9_StopLossSweep ==
    [][ ValidCycleStep =>
          \A k \in Range(active_attempts) :
              StopLossHit(attempts[k], snapshot') =>
                  /\ attempts'[k].status = COMPLETED_FAILED
                  /\ attempts'[k].fail_reason = "stop_loss"
                  /\ attempts'[k].pair_cost_points = attempts'[k].P1_points
                  /\ attempts'[k].pair_profit_points =
                        0 - params.stop_loss_threshold_points
      ]_vars

(* ------------------------------------------------------------------ *)
(* C10 An active attempt that meets both its stop-loss condition and    *)
(*     its pairing condition in one cycle is never completed_paired.    *)
(*     (Fails for the reason of C9: the attempt pairs.)                 *)
(* ------------------------------------------------------------------ *)
C10_StopLossBeforePairing ==
    [][ ValidCycleStep =>
          \A k \in Range(active_attempts) :
              (/\ StopLossHit(attempts[k], snapshot')
               /\ ObservedLowAsk(snapshot', attempts[k].opposite_side)
                     <= attempts[k].opposite_trigger_points)
              => attempts'[k].status # COMPLETED_PAIRED
      ]_vars

(* ------------------------------------------------------------------ *)
(* C11 In every reachable state every attempt's                         *)
(*     max_adverse_excursion_points, when set, is >= 0, and every       *)
(*     completed_paired attempt has closest_approach_points = 0.        *)
(* ------------------------------------------------------------------ *)
C11_TrackersSane ==
    \A k \in Keys :
        /\ attempts[k].max_adverse_excursion_points # None
              => attempts[k].max_adverse_excursion_points >= 0
        /\ IsPaired(k) => attempts[k].closest_approach_points = 0

\* an attempt that was under water and away from its trigger, then paired
C11_Witness ==
    \E k \in Keys :
        /\ IsPaired(k)
        /\ attempts[k].max_adverse_excursion_points > 0
        /\ attempts[k].t2_cycle_number > attempts[k].cycle_number

(* ------------------------------------------------------------------ *)
(* C13 evaluate_cycle on an invalid snapshot (a bid or ask missing or   *)
(*     <= 0, or bid >= ask on a side) returns skipped = true with no    *)
(*     new and no paired attempts, leaves the active attempts, pending  *)
(*     limits, trackers and counters unchanged, and the monitor's       *)
(*     cycle counter advances by 1.                                     *)
(* ------------------------------------------------------------------ *)
InvalidSnapshot(s) ==
    \/ \E side \in Side :
          \/ ObservedBid(s, side) = None \/ ObservedAsk(s, side) = None
          \/ ObservedBid(s, side) <= 0 \/ ObservedAsk(s, side) <= 0
    \/ \E side \in Side : ObservedBid(s, side) >= ObservedAsk(s, side)

C13_InvalidSnapshotSkipped ==
    [][ (cycles_run' # cycles_run /\ InvalidSnapshot(snapshot')) =>
          /\ result'.skipped
          /\ result'.new_attempts = << >>
          /\ result'.paired_attempts = << >>
          /\ UNCHANGED evaluator_state
          /\ cycles_run' = cycles_run + 1
      ]_vars

\* a skipped cycle with an attempt active and a limit pending
C13_Witness ==
    /\ result.skipped
    /\ active_attempts # << >>
    /\ pending_limits # << >>
    /\ cycles_run >= 2

(* ------------------------------------------------------------------ *)
(* C14 process_settlement(now, time_remaining, reason) turns every      *)
(*     active attempt into completed_failed with fail_reason = reason   *)
(*     and time_remaining_at_completion set, returns exactly those      *)
(*     attempts and leaves active_attempts empty; a second call returns *)
(*     an empty list and changes no attempt.                            *)
(* ------------------------------------------------------------------ *)
C14_Settlement ==
    [][ finished' =>
          /\ \A k \in Range(active_attempts) :
                /\ attempts'[k].status = COMPLETED_FAILED
                /\ attempts'[k].fail_reason = settle_reason'
                /\ attempts'[k].time_remaining_at_completion # None
          /\ \A k \in Keys \ Range(active_attempts) : attempts'[k] = attempts[k]
          /\ settled' = active_attempts
          /\ active_attempts' = << >>
          /\ finished => (settled' = << >> /\ attempts' = attempts)
      ]_vars

\* a shutdown settlement that failed two attempts
C14_Witness ==
    /\ finished
    /\ settle_reason = "bot_shutdown"
    /\ Len(settled) = 2
    /\ \A i \in DOMAIN settled : attempts[settled[i]].fail_reason = "bot_shutdown"

(* ------------------------------------------------------------------ *)
(* C12 Within one monitor every executed cycle increments the cycle     *)
(*     counter by exactly 1, a cycle starts only when no other cycle    *)
(*     is in progress, and every attempt returned in new_attempts of    *)
(*     cycle C has cycle_number = C.                                    *)
(* ------------------------------------------------------------------ *)
C12_CyclesSequential ==
    [][ (cycles_run' # cycles_run \/ result' # result \/ snapshot' # snapshot) =>
          /\ cycles_run' = cycles_run + 1
          /\ pc \in { "first_cycle", "sleep" }
          /\ \A k \in Range(result'.new_attempts) :
                attempts'[k].cycle_number = cycles_run'
          /\ (DOMAIN attempts') \ (DOMAIN attempts) = Range(result'.new_attempts)
      ]_vars

\* a later cycle returned an attempt whose limit was placed in an earlier one
C12_Witness ==
    /\ pc = "insert_attempts"
    /\ cycles_run >= 2
    /\ \E k \in Range(result.new_attempts) :
          attempts[k].cycles_to_fill_first_leg >= 1

(* ------------------------------------------------------------------ *)
(* C15 Every attempt still active when the cycle loop ends is persisted *)
(*     as completed_failed, with fail_reason "bot_shutdown" iff the     *)
(*     loop ended by the shutdown signal or a cancellation, and with    *)
(*     "settlement_reached" iff it ended because the settlement time    *)
(*     was reached.                                                     *)
(*     (Fails: an exception in a cycle also ends the loop, and the      *)
(*     attempts are then failed with "settlement_reached".)             *)
(* ------------------------------------------------------------------ *)
C15_FailReasonMatchesLoopEnd ==
    \A row \in store :
        row.status = COMPLETED_FAILED =>
            /\ (row.fail_reason = "bot_shutdown")
                  <=> (loop_end \in { "shutdown", "cancelled" })
            /\ (row.fail_reason = "settlement_reached")
                  <=> (loop_end = "settlement")

(* ------------------------------------------------------------------ *)
(* C16 Whenever run() ends after its cycle loop has started, by         *)
(*     settlement or by a shutdown or cancellation at any await, every  *)
(*     attempt created during the run has a terminal status in the      *)
(*     store and the summary row has been written.                      *)
(*     (Fails: the settlement and summary writes are outside the try,   *)
(*     and a cycle whose insert was cancelled leaves no row to update.) *)
(* ------------------------------------------------------------------ *)
C16_TerminalOnExit ==
    (pc \in { "done", "cancelled" } /\ loop_end # "error") =>
        /\ \A k \in Keys :
              \E row \in store :
                  /\ row.key = k
                  /\ row.status \in { COMPLETED_PAIRED, COMPLETED_FAILED }
        /\ summary_written

(* ------------------------------------------------------------------ *)
(* C17 Before every cycle the feed's age is compared with               *)
(*     feed_gap_threshold_seconds; when it is larger, or no message was *)
(*     ever received, the cycle is evaluated by no evaluator, every     *)
(*     active attempt gets had_feed_gap = true and keeps it, also in    *)
(*     the row persisted when it completes.                             *)
(*     (Fails: the first cycle runs without the comparison.)            *)
(* ------------------------------------------------------------------ *)
CycleDue ==
    \/ pc = "first_cycle" /\ pc' # pc
    \/ pc = "sleep" /\ elapsed' = elapsed + 1 /\ elapsed' < MaxCycles

StaleFeed(age) == age = None \/ age > feed_gap_threshold_seconds

C17_FeedGapSkipsCycle ==
    [][ /\ (CycleDue /\ StaleFeed(feed_age')) =>
              /\ cycles_run' = cycles_run
              /\ result' = result
              /\ \A k \in Range(active_attempts) : attempts'[k].had_feed_gap
        /\ \A k \in Keys : attempts[k].had_feed_gap => attempts'[k].had_feed_gap
        /\ \A row \in store' \ store :
              row.status \in { COMPLETED_PAIRED, COMPLETED_FAILED }
                  => row.had_feed_gap = attempts'[row.key].had_feed_gap
      ]_vars

(* ------------------------------------------------------------------ *)
(* C18 An exception raised while a cycle is executed is logged and      *)
(*     swallowed, and the cycle loop goes on with the following cycles. *)
(*     (Fails: the exception leaves _run_cycles; run() logs it and      *)
(*     goes straight to the settlement.)                                *)
(* ------------------------------------------------------------------ *)
ExceptionInCycle == loop_end = "" /\ loop_end' = "error"

C18_ErrorSwallowed ==
    [][ ExceptionInCycle => (pc' = "sleep" /\ ~finished') ]_vars

(* ------------------------------------------------------------------ *)
(* C19. AssetManager.run returns only after shutdown has been          *)
(*      requested (the event is set or its task is cancelled).         *)
(*      (Fails: 40 missed discoveries, or an exception of the monitor, *)
(*      end the manager while the bot keeps running.)                  *)
(* ------------------------------------------------------------------ *)
C19_ReturnsOnlyAfterShutdown ==
    am_pc = "stopped" => (shutdown \/ am_cancelled)

(* ------------------------------------------------------------------ *)
(* C20. _discover_with_retry terminates: at most 40 discovery calls,   *)
(*      a wait of min(5, 2 + k) seconds after the k-th miss, and once  *)
(*      the shutdown event is set before an attempt or during a wait   *)
(*      it makes no further discovery call and returns no market.      *)
(* ------------------------------------------------------------------ *)
InDiscovery == am_pc \in { "retry_check", "discovering", "waiting" }

BetweenAttempts == am_pc \in { "retry_check", "waiting" }

C20_DiscoverTerminates ==
    /\ [](discovery_calls <= 40)
    /\ [](am_pc = "waiting" =>
            delay = (IF 2 + attempt < 5 THEN 2 + attempt ELSE 5))
    /\ [][ (shutdown /\ BetweenAttempts) =>
             /\ discovery_calls' = discovery_calls
             /\ am_pc' \in { "retry_check", "waiting", "closing" }
             /\ (am_pc' = "closing" =>
                    am_exit' \in { "no_market", "cancelled" }) ]_vars
    /\ (InDiscovery ~> ~InDiscovery)

\* all 40 attempts missed, the last waits were capped at 5 seconds
C20_Witness ==
    /\ am_pc = "closing"
    /\ am_exit = "no_market"
    /\ discovery_calls = 40
    /\ delay = 5
    /\ ~shutdown

(* ------------------------------------------------------------------ *)
(* C27 No attempt is ever created with P1_points >= pair_cap_points:   *)
(*     in a valid cycle every new attempt has P1 < pair_cap, a side     *)
(*     whose level computed in the cycle is >= pair_cap creates no      *)
(*     attempt at that level and keeps no pending limit, and no limit   *)
(*     carried to a later cycle is >= pair_cap.                         *)
(* ------------------------------------------------------------------ *)
C27_PairCapGuard ==
    [][ ValidCycleStep =>
          LET cap == 100 - params.delta_points
          IN  /\ \A k \in Range(result'.new_attempts) :
                    attempts'[k].P1_points < cap
              /\ \A i \in DOMAIN pending_limits' :
                    pending_limits'[i].limit_price_points < cap
              /\ \A side \in Side :
                    FreshLimit(params, snapshot', side) >= cap =>
                       /\ \A k \in CreatedOn(side) :
                             /\ attempts'[k].cycles_to_fill_first_leg >= 1
                             /\ attempts'[k].P1_points \in CarriedLimits(side)
                       /\ \A i \in DOMAIN pending_limits' :
                             pending_limits'[i].side # side
      ]_vars

\* after earlier cycles, a side's period low reached a level at or above
\* pair_cap, and the cycle created no attempt on that side
C27_Witness ==
    /\ cycles_run >= 2
    /\ ~result.skipped
    /\ \E side \in Side :
          /\ FreshLimit(params, snapshot, side) >= 100 - params.delta_points
          /\ ObservedLowAsk(snapshot, side) <= FreshLimit(params, snapshot, side)
          /\ \A k \in Range(result.new_attempts) :
                attempts[k].first_leg_side # side

(* ------------------------------------------------------------------ *)
(* Lifetime extremes of an attempt over the snapshots observed          *)
(* ------------------------------------------------------------------ *)

SetMin(S) == CHOOSE x \in S : \A y \in S : x <= y

SetMax(S) == CHOOSE x \in S : \A y \in S : x >= y

\* the valid cycles from the creation of attempt k up to cycle last
ValidCyclesOf(k, last) ==
    { c \in attempts[k].cycle_number..last : ~InvalidSnapshot(observed[c]) }

\* opposite-side low ask minus the opposite trigger, in cycle c
DistanceIn(k, c) ==
    ObservedLowAsk(observed[c], attempts[k].opposite_side)
        - attempts[k].opposite_trigger_points

\* max(0, P1 - first-leg bid) in cycle c
AdverseIn(k, c) ==
    LET d == attempts[k].P1_points
                - ObservedBid(observed[c], attempts[k].first_leg_side)
    IN  IF d > 0 THEN d ELSE 0

MaxAdverseOver(k, cycles) ==
    IF cycles = {} THEN 0 ELSE SetMax({ AdverseIn(k, c) : c \in cycles })

(* ------------------------------------------------------------------ *)
(* C28 For every attempt that has not paired, closest_approach_points  *)
(*     is the minimum over the valid cycles since its creation of       *)
(*     (opposite-side low ask - opposite_trigger_points), the recorded  *)
(*     cycle is the first one that attained the minimum, and            *)
(*     process_settlement leaves that value on the failed attempt.      *)
(* ------------------------------------------------------------------ *)
C28_ClosestApproachIsLifetimeMin ==
    /\ [](\A k \in Keys :
            ~IsPaired(k) =>
               LET cyc == ValidCyclesOf(k, Len(observed))
                   m == SetMin({ DistanceIn(k, c) : c \in cyc })
               IN  /\ attempts[k].closest_approach_points = m
                   /\ attempts[k].closest_approach_cycle_number
                         = SetMin({ c \in cyc : DistanceIn(k, c) = m }))
    /\ [][ (finished' /\ observed' = observed) =>
              \A k \in Range(active_attempts) :
                 /\ attempts'[k].status = COMPLETED_FAILED
                 /\ attempts'[k].closest_approach_points
                       = attempts[k].closest_approach_points
                 /\ attempts'[k].closest_approach_cycle_number
                       = attempts[k].closest_approach_cycle_number ]_vars

\* a failed attempt that came closest in a cycle after its creation and
\* before the last one
C28_Witness ==
    \E k \in Keys :
        /\ attempts[k].status = COMPLETED_FAILED
        /\ attempts[k].closest_approach_cycle_number > attempts[k].cycle_number
        /\ attempts[k].closest_approach_cycle_number < Len(observed)
        /\ DistanceIn(k, Len(observed)) > attempts[k].closest_approach_points

\* the value of an active attempt never decreases
MaeMonotone ==
    \A k \in Range(active_attempts) :
        (attempts[k].max_adverse_excursion_points # None)
           => attempts'[k].max_adverse_excursion_points
                 >= attempts[k].max_adverse_excursion_points

\* the last cycle an attempt went through: the cycle that paired it, the
\* last cycle observed for a failed attempt
CompletionCycle(k) ==
    IF IsPaired(k) THEN attempts[k].t2_cycle_number ELSE Len(observed)

(* ------------------------------------------------------------------ *)
(* C29 (as stated) For every completed attempt,                         *)
(*     max_adverse_excursion_points is the maximum of                   *)
(*     max(0, P1_points - first-leg bid) over the valid cycles from its *)
(*     creation cycle to its completion cycle, and the value never      *)
(*     decreases while the attempt is active.                           *)
(* ------------------------------------------------------------------ *)
C29_MaeThroughCompletion ==
    /\ [](\A k \in Keys :
            attempts[k].status # ACTIVE =>
               attempts[k].max_adverse_excursion_points
                  = MaxAdverseOver(k, ValidCyclesOf(k, CompletionCycle(k))))
    /\ [][MaeMonotone]_vars

(* ------------------------------------------------------------------ *)
(* C29 (amended) For every completed attempt,                           *)
(*     max_adverse_excursion_points is the maximum of                   *)
(*     max(0, P1_points - first-leg bid) over the valid cycles after    *)
(*     which the attempt was still active: from its creation cycle to   *)
(*     the cycle before the one that paired it (0 when there is none),  *)
(*     to the last cycle for a failed attempt; and the value never      *)
(*     decreases while the attempt is active.                           *)
(* ------------------------------------------------------------------ *)
C29_MaeWhileActive ==
    /\ [](\A k \in Keys :
            attempts[k].status # ACTIVE =>
               attempts[k].max_adverse_excursion_points
                  = MaxAdverseOver(k,
                       ValidCyclesOf(k, IF IsPaired(k)
                                        THEN attempts[k].t2_cycle_number - 1
                                        ELSE Len(observed))))
    /\ [][MaeMonotone]_vars

\* an attempt that paired in a cycle whose first-leg bid was further below
\* P1 than in any cycle before
C29_Witness ==
    \E k \in Keys :
        /\ IsPaired(k)
        /\ attempts[k].t2_cycle_number > attempts[k].cycle_number
        /\ attempts[k].max_adverse_excursion_points > 0
        /\ AdverseIn(k, attempts[k].t2_cycle_number)
              > attempts[k].max_adverse_excursion_points

\* the attempts that have an entry in one of the evaluator's trackers
Tracked ==
    { k \in Keys : \/ closest_approach[k] # None
                   \/ closest_approach_cn[k] # None
                   \/ mae[k] # None
                   \/ mae_cn[k] # None }

(* ------------------------------------------------------------------ *)
(* C30 After every evaluate_cycle and process_settlement call the      *)
(*     closest-approach and MAE trackers hold entries only for the      *)
(*     attempts in active_attempts: the call that pairs or fails an     *)
(*     attempt removes its entries.                                     *)
(* ------------------------------------------------------------------ *)
C30_TrackersOnlyForActive ==
    /\ DOMAIN closest_approach = Keys
    /\ DOMAIN mae = Keys
    /\ Tracked \subseteq Range(active_attempts)

\* an attempt that was tracked for a cycle has paired and lost its entries,
\* while another attempt is still tracked
C30_Witness ==
    /\ \E k \in Keys :
          /\ IsPaired(k)
          /\ attempts[k].t2_cycle_number > attempts[k].cycle_number
          /\ attempts[k].max_adverse_excursion_points > 0
          /\ k \notin Tracked
    /\ \E j \in Range(active_attempts) :
          closest_approach[j] # None /\ mae[j] # None

(* ------------------------------------------------------------------ *)
(* Vocabulary of the store properties                                   *)
(* ------------------------------------------------------------------ *)

\* every Attempts row inserted so far, committed or not
RowsInserted == db_attempts \cup sq_rows \cup UNION { pg_rows[w] : w \in Writers }

\* the ids written back to Attempt objects, over all writers
IdsWrittenBack == w_ids[1] \o w_ids[2]

\* the writer whose commit the step performs
Committing(w) == w_pc[w] = "commit" /\ w_pc'[w] = "idle"

(* ------------------------------------------------------------------ *)
(* C22 insert_attempts_batch gives every attempt of the batch a         *)
(*     store-generated attempt_id and writes it back; the ids assigned  *)
(*     are pairwise distinct over all batches, also when the calls of   *)
(*     different monitors interleave.                                   *)
(* ------------------------------------------------------------------ *)
C22_DistinctIds ==
    /\ \A i, j \in DOMAIN IdsWrittenBack :
          i # j => IdsWrittenBack[i] # IdsWrittenBack[j]
    /\ \A r \in RowsInserted : r.attempt_id \in Range(w_ids[r.writer])
    /\ \A r1, r2 \in RowsInserted : r1.attempt_id = r2.attempt_id => r1 = r2
    /\ \A w \in Writers :
          (w_op[w].kind = "insert_attempts_batch" /\ w_pc[w] = "commit") =>
             \A k \in 0..(w_op[w].n - 1) :
                \E r \in RowsInserted :
                   /\ r.attempt_id = w_ids[w][Len(w_ids[w]) - k]
                   /\ r.writer = w
                   /\ r.batch = w_op[w].b

\* two monitors' batches were inserted interleaved on PostgreSQL and both
\* were committed
C22_Witness ==
    /\ is_postgres
    /\ Len(w_ids[1]) >= 2
    /\ Len(w_ids[2]) >= 1
    /\ w_ids[1][1] < w_ids[2][1]
    /\ w_ids[2][1] < w_ids[1][2]
    /\ \E r1, r2 \in db_attempts : r1.writer = 1 /\ r2.writer = 2

(* ------------------------------------------------------------------ *)
(* C23 insert_attempts_batch is a single transaction on both backends: *)
(*     when an insert of the batch fails, no row of that batch is ever  *)
(*     committed, not even by the commit of a later write.              *)
(*     (Fails on SQLite: nothing is rolled back.)                       *)
(* ------------------------------------------------------------------ *)
C23_BatchAtomic ==
    \A r \in db_attempts : << r.writer, r.batch >> \notin failed_batches

(* ------------------------------------------------------------------ *)
(* C24 Concurrent writes of different monitors are serialized: on      *)
(*     SQLite at most one write is between its first statement and its  *)
(*     commit, and no monitor's commit commits part of another          *)
(*     monitor's batch.                                                 *)
(*     (Fails on SQLite after a batch that raised.)                     *)
(* ------------------------------------------------------------------ *)
C24_WritesSerialized ==
    /\ [](~is_postgres =>
             \A w1, w2 \in Writers :
                (w_pc[w1] # "idle" /\ w_pc[w2] # "idle") => w1 = w2)
    /\ [][ \A w \in Writers :
              Committing(w) =>
                 \A r \in db_attempts' \ db_attempts : r.writer = w ]_vars

(* ------------------------------------------------------------------ *)
(* C25 insert_market is an idempotent upsert on both backends: Markets *)
(*     holds one row per market_id, and a repeated call rewrites only   *)
(*     the columns it supplies, keeping the summary columns that        *)
(*     update_market_summary wrote.                                     *)
(*     (Fails on SQLite: INSERT OR REPLACE resets the other columns.)   *)
(* ------------------------------------------------------------------ *)
C25_UpsertKeepsSummary ==
    /\ [](\A r1, r2 \in db_markets : r1.market_id = r2.market_id => r1 = r2)
    /\ [][ \A r \in db_markets :
              /\ \E r2 \in db_markets' : r2.market_id = r.market_id
              /\ \A r2 \in db_markets' :
                    (r2.market_id = r.market_id /\ r2.summary # r.summary) =>
                       \E w \in Writers :
                          /\ w_op[w].kind = "update_market_summary"
                          /\ w_pc'[w] # w_pc[w] ]_vars

(* ------------------------------------------------------------------ *)
(* WebSocketClient event handlers and MarketMonitor._capture_snapshot  *)
(*                                                                      *)
(* The feed keeps one TokenOrderbook per token and overwrites its      *)
(* best_bid / best_ask on every book and price_change event.           *)
(* _capture_snapshot copies the current bests into a Snapshot.  The    *)
(* Snapshot it builds is given no period-low values (the dataclass has *)
(* no such fields, the handlers keep no accumulators and nothing is    *)
(* reset); the snapshot's period lows are therefore absent (None).     *)
(* A price string is modelled by its value in tenths of a point       *)
(* ("0.455" is 455).                                                    *)
(* ------------------------------------------------------------------ *)

\* feed events and snapshots explored
MaxFeedSteps == 3

\* price strings the feed sends, in tenths of a point
BidStrings == {430, 480}
AskStrings == {450, 455, 500}

\* a missing or empty best_bid / best_ask of a price_change
NoString == None

not_feed_vars == << evaluator_vars, monitor_vars, am_vars, store_vars, sup_vars,
                   run_vars, conn_vars >>

\* int(Decimal(price_str) * 100)
price_to_points(price_str) == price_str \div 10

\* reported with the bests of one handled event added (None: not reported)
Report(t, bid, ask) ==
    [ reported EXCEPT
        ![t].bids = IF bid = None THEN @ ELSE @ \cup {bid},
        ![t].asks = IF ask = None THEN @ ELSE @ \cup {ask} ]

\* _handle_book_event: best bid is the highest bid, best ask the lowest ask,
\* None for an empty side
HandleBookEvent(t, bids, asks) ==
    /\ feed_steps < MaxFeedSteps
    /\ \E bid \in { IF bids = {} THEN None ELSE price_to_points(SetMax(bids)) } :
       \E ask \in { IF asks = {} THEN None ELSE price_to_points(SetMin(asks)) } :
          /\ orderbooks' = [ orderbooks EXCEPT ![t] =
                               [ best_bid |-> bid, best_ask |-> ask ] ]
          /\ reported' = Report(t, bid, ask)
    /\ feed_steps' = feed_steps + 1
    /\ UNCHANGED << period, captured, captures, not_feed_vars >>

\* _handle_price_change: changes[0] overwrites the bests it names
HandlePriceChange(t, bid_str, ask_str) ==
    /\ feed_steps < MaxFeedSteps
    /\ \E bid \in { IF bid_str = NoString THEN None ELSE price_to_points(bid_str) } :
       \E ask \in { IF ask_str = NoString THEN None ELSE price_to_points(ask_str) } :
          /\ orderbooks' = [ orderbooks EXCEPT ![t] =
                               [ best_bid |-> IF bid = None THEN @.best_bid ELSE bid,
                                 best_ask |-> IF ask = None THEN @.best_ask ELSE ask ] ]
          /\ reported' = Report(t, bid, ask)
    /\ feed_steps' = feed_steps + 1
    /\ UNCHANGED << period, captured, captures, not_feed_vars >>

\* _capture_snapshot: Snapshot(yes_bid_points=yes_ob.best_bid, ...), with no
\* period-low argument; the period the snapshot closes is recorded
CaptureSnapshot ==
    /\ feed_steps < MaxFeedSteps
    /\ captured' = Snap(orderbooks["yes"].best_bid, orderbooks["yes"].best_ask,
                        orderbooks["no"].best_bid, orderbooks["no"].best_ask,
                        None, None)
    /\ captures' = captures + 1
    /\ period' = reported
    /\ reported' = [ t \in Tokens |-> [ bids |-> {}, asks |-> {} ] ]
    /\ feed_steps' = feed_steps + 1
    /\ UNCHANGED << orderbooks, not_feed_vars >>

FeedNext ==
    \/ \E t \in Tokens : \E bids \in SUBSET BidStrings : \E asks \in SUBSET AskStrings :
          HandleBookEvent(t, bids, asks)
    \/ \E t \in Tokens : \E bid_str \in BidStrings \cup {NoString} :
       \E ask_str \in AskStrings \cup {NoString} :
          HandlePriceChange(t, bid_str, ask_str)
    \/ CaptureSnapshot

FeedInit == Init /\ params = Params(1, 1, 5, 0, None)

FeedSpec == FeedInit /\ [][FeedNext]_vars

\* the period-low ask the last snapshot carries for a token
CarriedLowAsk(t) ==
    IF t = "yes" THEN captured.yes_period_low_ask_points
                 ELSE captured.no_period_low_ask_points

(* ------------------------------------------------------------------ *)
(* C26 The period-low ask the snapshot of a cycle carries for a token  *)
(*     is the minimum ask the feed reported for that token since the    *)
(*     previous snapshot was built (the accumulators are reset at each  *)
(*     snapshot, so an older low is not reported again).                *)
(*     (Fails: the feed accumulates nothing and the snapshot carries    *)
(*     no period low.)                                                  *)
(* ------------------------------------------------------------------ *)
C26_PeriodLowIsMinSinceLastSnapshot ==
    \A t \in Tokens :
       (captures > 0 /\ period[t].asks # {}) =>
          CarriedLowAsk(t) = SetMin(period[t].asks)

(* ------------------------------------------------------------------ *)
(* main(): launch the tasks, gather them, shut down                     *)
(*                                                                      *)
(* One asset manager task is followed through its first market, with   *)
(* the monitor of that market running inside the same task.  main()    *)
(* awaits gather on all tasks; it gets past it when a task raises or   *)
(* ends cancelled, or when its own task was cancelled (gather then     *)
(* cancels the children) and every child is done.  Its finally block   *)
(* sets the shutdown event, cancels the tasks that are not done,       *)
(* gathers them again and closes the REST client and the store.        *)
(* A requested cancellation is raised at the await the task is         *)
(* suspended at, instead of that await's result.                       *)
(* ------------------------------------------------------------------ *)

\* CancelledError raised so far in the manager's task
Delivered ==
    cancels + (IF am_exit = "cancelled" /\ pc # "cancelled" THEN 1 ELSE 0)

\* task.cancel() was called and the CancelledError is still to be raised
CancelPending == cancel_requests > Delivered

\* for t in all_tasks: if not t.done(): t.cancel()
CancelTasks_none == cancel_requests

CancelTasks == IF am_pc # "stopped" THEN Delivered + 1 ELSE cancel_requests

\* asyncio.gather(all_tasks, return_exceptions=True) completes
Drained == am_pc = "stopped"

\* what the manager's task is doing
TaskPhase ==
    IF am_pc # "monitoring" \/ pc \in { "done", "raised", "cancelled" } THEN "idle"
    ELSE IF loop_end = "" THEN "in_cycles"
    ELSE "settling"

not_sup_vars == << evaluator_vars, pc, was_shutdown, loop_end, cancels, elapsed,
                   feed_age, store, summary_written, am_vars, feed_vars, run_vars,
                   conn_vars >>

store_but_open == << is_postgres, write_lock, rowid_seq, db_attempts, db_markets,
                     sq_rows, sq_markets, pg_rows, w_pc, w_op, w_ids, w_calls,
                     failed_batches >>

\* asset_tasks = [asyncio.create_task(am.run()) ...]; await asyncio.gather(...)
LaunchTasks ==
    /\ sup_pc = "start"
    /\ db_open
    /\ sup_pc' = "gather"
    /\ UNCHANGED << cancel_requests, at_shutdown, shutdown, store_vars, not_sup_vars >>

\* main's task is cancelled while it awaits a gather: the gather cancels its
\* children and completes once they are all done
MainCancelled ==
    /\ sup_pc \in { "gather", "drain" }
    /\ cancel_requests' = CancelTasks
    /\ at_shutdown' = IF at_shutdown = "" THEN TaskPhase ELSE at_shutdown
    /\ sup_pc' = IF sup_pc = "gather" THEN "gather_cancelled" ELSE "drain_cancelled"
    /\ UNCHANGED << shutdown, store_vars, not_sup_vars >>

\* except asyncio.CancelledError / an exception of a task leaves the gather;
\* finally: shutdown_event.set(); cancel the tasks not done; gather again
EnterFinally ==
    /\ shutdown' = TRUE
    /\ cancel_requests' = CancelTasks
    /\ at_shutdown' = IF at_shutdown = "" THEN TaskPhase ELSE at_shutdown
    /\ sup_pc' = "drain"
    /\ UNCHANGED << store_vars, not_sup_vars >>

\* the cancelled gather completes: every task is done
GatherCancelledDone ==
    /\ sup_pc = "gather_cancelled"
    /\ am_pc = "stopped"
    /\ EnterFinally

\* a task raises, or the status task (which does not handle CancelledError)
\* ends cancelled after the gather was cancelled: gather re-raises at once,
\* without waiting for the other tasks
TaskRaised ==
    /\ sup_pc \in { "gather", "gather_cancelled" }
    /\ EnterFinally

\* await asyncio.gather(all_tasks, return_exceptions=True) returns
DrainDone ==
    /\ sup_pc = "drain"
    /\ Drained
    /\ sup_pc' = "close_rest"
    /\ UNCHANGED << cancel_requests, at_shutdown, shutdown, store_vars, not_sup_vars >>

\* the second gather was cancelled: CancelledError leaves the finally block
DrainAborted ==
    /\ sup_pc = "drain_cancelled"
    /\ am_pc = "stopped"
    /\ sup_pc' = "aborted"
    /\ UNCHANGED << cancel_requests, at_shutdown, shutdown, store_vars, not_sup_vars >>

\* await rest_client.close() returns
CloseRest ==
    /\ sup_pc = "close_rest"
    /\ sup_pc' = "close_db"
    /\ UNCHANGED << cancel_requests, at_shutdown, shutdown, store_vars, not_sup_vars >>

\* await rest_client.close() raises: db.close() is not reached
CloseRestRaises ==
    /\ sup_pc = "close_rest"
    /\ sup_pc' = "aborted"
    /\ UNCHANGED << cancel_requests, at_shutdown, shutdown, store_vars, not_sup_vars >>

\* await db.close()
CloseStore ==
    /\ sup_pc = "close_db"
    /\ db_open' = FALSE
    /\ sup_pc' = "closed"
    /\ UNCHANGED << cancel_requests, at_shutdown, shutdown, store_but_open,
                    not_sup_vars >>

\* the manager's task runs (it exists once launched)
Launched == sup_pc # "start"

\* the task's await completes (no cancellation is waiting for it)
Resumes == Launched /\ ~CancelPending

\* the task's await raises the requested CancelledError
Interrupted == Launched /\ CancelPending

\* the monitor of the task's market is running
Monitoring == Launched /\ am_pc = "monitoring"

\* failed discoveries followed per _discover_with_retry call
MaxMisses == 1

SupervisorInit == Init /\ params = Params(1, 1, 5, 0, None)

\* The shutdown event is set only by main's finally block, in the same step
\* that cancels the task; the cancellation is raised at the task's await before
\* the event can end it, so the steps that wait for the event (SleepShutdown,
\* AmWaitShutdown) are never taken here.  Only the first market is followed:
\* after it discovery finds no market within the misses explored.
SupervisorNext ==
    \/ sup_pc = "start" /\ \E postgres \in BOOLEAN : Initialize(postgres)
    \/ LaunchTasks
    \/ MainCancelled
    \/ GatherCancelledDone
    \/ TaskRaised
    \/ DrainDone
    \/ DrainAborted
    \/ CloseRest
    \/ CloseRestRaises
    \/ CloseStore
    \/ Launched /\ AmLoopCheck
    \/ Launched /\ AmRetryCheck
    \/ Resumes /\ markets_monitored = 0 /\ AmDiscoverFound
    \/ Resumes /\ attempt < MaxMisses /\ AmDiscoverMiss
    \/ Resumes /\ AmWaitTimeout
    \/ Resumes /\ AmPauseDone
    \/ Launched /\ pc = "done" /\ AmMonitorReturns(loop_end = "cancelled")
    \/ Launched /\ pc = "raised" /\ AmMonitorRaises
    \/ Launched /\ pc = "cancelled" /\ am_pc = "monitoring" /\ AmCancelled
    \/ Interrupted /\ am_pc # "monitoring" /\ AmCancelled
    \/ Launched /\ AmClose
    \/ Monitoring /\ \E age \in FeedAges : \E s \in BooksAt(age) :
          ExecuteFirstCycle(s, age)
    \/ Monitoring /\ Resumes /\ SettlementReached
    \/ Monitoring /\ Resumes /\ \E age \in AgesAfter(feed_age) : FeedGapSkip(age)
    \/ Monitoring /\ Resumes /\ \E age \in AgesAfter(feed_age) :
          \E s \in BooksAt(age) : ExecuteCycle(s, age)
    \/ Monitoring /\ Resumes /\ InsertAttemptsOk
    \/ Monitoring /\ Resumes /\ UpdatePairedOk
    \/ Monitoring /\ Resumes /\ ErrorInCycle
    \/ Monitoring /\ Interrupted /\ CancelledInCycle
    \/ Monitoring /\ Resumes /\ UpdateFailedOk
    \/ Monitoring /\ Resumes /\ WriteSummaryOk
    \/ Monitoring /\ Resumes /\ ErrorAfterLoop
    \/ Monitoring /\ Interrupted /\ CancelledAfterLoop

SupervisorSpec == SupervisorInit /\ [][SupervisorNext]_vars

\* no store call of the followed monitor raised
NoStoreFault == pc # "raised" /\ loop_end # "error" /\ am_exit # "monitor_error"

(* ------------------------------------------------------------------ *)
(* C21 On shutdown main() sets the shutdown event and waits until      *)
(*     every asset manager task has finished -- each running monitor    *)
(*     having processed settlement with fail_reason "bot_shutdown" and  *)
(*     written its summary -- before it closes the store, and no store  *)
(*     write is issued after the store has been closed.                 *)
(*     (Fails: a monitor cancelled in its settlement or summary write   *)
(*     leaves without writing the summary.)                             *)
(* ------------------------------------------------------------------ *)
C21_DrainBeforeClose ==
    /\ [](sup_pc = "closed" =>
             /\ shutdown
             /\ am_pc = "stopped"
             /\ (at_shutdown = "in_cycles" /\ NoStoreFault) =>
                   /\ finished
                   /\ settle_reason = "bot_shutdown"
                   /\ summary_written
             /\ (at_shutdown = "settling" /\ NoStoreFault) =>
                   /\ finished
                   /\ summary_written)
    /\ [][ sup_pc = "closed" =>
              /\ store' = store
              /\ summary_written' = summary_written ]_vars

(* ------------------------------------------------------------------ *)
(* C34 In every evaluator state reached by evaluate_cycle,             *)
(*     mark_feed_gap and process_settlement calls, total_attempts =     *)
(*     total_pairs + total_failed + len(active_attempts).               *)
(* ------------------------------------------------------------------ *)
C34_CountersBalance ==
    total_attempts = total_pairs + total_failed + Len(active_attempts)

\* pairs, failures and a settlement that failed two attempts at once
C34_Witness ==
    /\ finished
    /\ total_pairs >= 1
    /\ Len(settled) >= 2
    /\ total_failed >= 2

\* the sides of the attempts a call created
NewSides == { attempts[result.new_attempts[i]].first_leg_side :
                 i \in DOMAIN result.new_attempts }

PendingSides == { pending_limits[i].side : i \in DOMAIN pending_limits }

(* ------------------------------------------------------------------ *)
(* C35 One evaluate_cycle call creates at most one attempt per side;   *)
(*     after it there is at most one pending limit per side and none    *)
(*     on a side that produced an attempt in that call; after           *)
(*     process_settlement there is no pending limit.                    *)
(* ------------------------------------------------------------------ *)
C35_OneLimitAndOneAttemptPerSide ==
    /\ [](/\ Len(result.new_attempts) <= 2
          /\ Cardinality(NewSides) = Len(result.new_attempts)
          /\ Cardinality(PendingSides) = Len(pending_limits)
          /\ finished => pending_limits = << >>)
    /\ [][ cycles_run' # cycles_run =>
              /\ Len(attempts') - Len(attempts) = Len(result'.new_attempts)
              /\ { pending_limits'[i].side : i \in DOMAIN pending_limits' }
                 \cap { attempts'[result'.new_attempts[i]].first_leg_side :
                           i \in DOMAIN result'.new_attempts } = {} ]_vars

\* a call that created an attempt on each side, one from a carried limit
C35_Witness ==
    /\ Len(result.new_attempts) = 2
    /\ \E i \in DOMAIN result.new_attempts :
          attempts[result.new_attempts[i]].cycles_to_fill_first_leg >= 1
    /\ ~finished

Completed == { COMPLETED_PAIRED, COMPLETED_FAILED }

C32_SettledMarketReturnsEmpty ==
    /\ [](run_pc = "returned_early" =>
            /\ ~ws_connected
            /\ ~market_row
            /\ cycles_run = 0
            /\ total_attempts = 0
            /\ attempts = << >>
            /\ store = {}
            /\ ~summary_written)
    /\ [][(run_pc = "entry" /\ run_pc' # "entry" /\ remaining_at_start' <= 0)
            => run_pc' = "returned_early"]_vars

C32_Witness == run_pc = "returned_early" /\ remaining_at_start = 0

(* ------------------------------------------------------------------ *)
(* C39: cycles and the settlement time                                  *)
(* ------------------------------------------------------------------ *)

\* time_remaining computed by the cycle that has just begun
TimeRemainingInCycle == loop_remaining - elapsed

\* C39 as stated: every cycle that runs found time_remaining > 0.
C39_EveryCycleBeforeSettlement ==
    [][cycles_run' = cycles_run + 1 => loop_remaining' - elapsed' > 0]_vars

\* C39, amended: every cycle after the first is run only after
\* time_remaining was found > 0; the first cycle is run without that check.
C39_LaterCyclesBeforeSettlement ==
    [][(cycles_run' = cycles_run + 1 /\ pc = "sleep")
        => loop_remaining' - elapsed' > 0]_vars

C39_Witness ==
    /\ run_pc = "cycles"
    /\ prelude_time >= 1
    /\ cycles_run >= 2
    /\ TimeRemainingInCycle = 1

(* ------------------------------------------------------------------ *)
(* C40: the summary accounts for every attempt                          *)
(* ------------------------------------------------------------------ *)

\* C40: in every summary run() builds, total_attempts equals
\* total_pairs + total_failed: no attempt is still active.
C40_SummaryIsBalanced ==
    SummaryBuilt => /\ total_attempts = total_pairs + total_failed
                    /\ active_attempts = << >>

C40_Witness ==
    /\ run_pc = "cycles"
    /\ prelude_time >= 1
    /\ pc = "done"
    /\ loop_end = "error"
    /\ total_failed >= 1

(* ------------------------------------------------------------------ *)
(* C37: batch updates name stored attempts                              *)
(* ------------------------------------------------------------------ *)

StoredKeys == { row.key : row \in store }

\* C37: every attempt handed to update_attempts_paired_batch or to
\* update_attempts_failed_batch has a row in the store, put there by a
\* completed insert_attempts_batch.
C37_UpdatesNameStoredAttempts ==
    /\ pc = "update_paired" => Range(result.paired_attempts) \subseteq StoredKeys
    /\ pc = "update_failed" => Range(settled) \subseteq StoredKeys

(* ------------------------------------------------------------------ *)
(* C38: no monitor is started after shutdown                            *)
(* ------------------------------------------------------------------ *)

\* C38: once the shutdown event is set the asset manager starts no monitor:
\* a discovery in flight when the event is set, or begun after it, is never
\* followed by monitor.run().
C38_NoMonitorAfterShutdown ==
    [][shutdown => (am_pc' = "monitoring" => am_pc = "monitoring")]_vars

C38_Witness ==
    /\ shutdown
    /\ am_pc = "discovering"
    /\ CancelPending

(* ------------------------------------------------------------------ *)
(* websocket_client.py: _connection_loop and stop()                     *)
(* One step per await of the loop; stop() runs beside it.               *)
(* ------------------------------------------------------------------ *)

\* websockets.connect calls followed
MaxConnects == 5

\* values of reconnect_max_delay explored, in seconds
ReconnectMaxDelays == { 2, 3 }

not_conn_vars == << evaluator_vars, monitor_vars, am_vars, store_vars, feed_vars,
                   sup_vars, run_vars >>

\* backoff = min(backoff * 2, self.reconnect_max_delay)
NextBackoff_uncapped(b, cap) == b * 2

NextBackoff(b, cap) == Min2(b * 2, cap)

\* connect_and_subscribe: _running = True, the loop task is created and
\* runs to its first await, websockets.connect
ConnectAndSubscribe(cap) ==
    /\ conn_pc = "idle"
    /\ max_delay' = cap
    /\ ws_running' = TRUE
    /\ backoff' = 1
    /\ connects' = 1
    /\ conn_pc' = "connecting"
    /\ UNCHANGED << sleep_for, failures, stop_pc, listen_cancel >>
    /\ UNCHANGED not_conn_vars

\* websockets.connect returns: self._ws = ws, "backoff = 1  # reset on success"
ConnectSucceeds ==
    /\ conn_pc = "connecting"
    /\ ~listen_cancel
    /\ backoff' = 1
    /\ failures' = 0
    /\ conn_pc' = "open"
    /\ UNCHANGED << ws_running, max_delay, sleep_for, connects, stop_pc,
                    listen_cancel >>
    /\ UNCHANGED not_conn_vars

\* the try block is left (ConnectionClosed, another exception, the end of
\* the message iteration or its break); finally; then
\* "if self._running: await asyncio.sleep(backoff)", else the while test ends
\* the loop
LeaveTry ==
    /\ failures' = failures + 1
    /\ IF ws_running
       THEN /\ sleep_for' = backoff
            /\ conn_pc' = "sleeping"
       ELSE /\ sleep_for' = sleep_for
            /\ conn_pc' = "ended"
    /\ UNCHANGED << ws_running, backoff, max_delay, connects, stop_pc,
                    listen_cancel >>
    /\ UNCHANGED not_conn_vars

\* websockets.connect raises
ConnectRaises ==
    /\ conn_pc = "connecting"
    /\ ~listen_cancel
    /\ LeaveTry

\* the open connection is closed or fails, by the peer or by stop()
ConnectionDrops ==
    /\ conn_pc = "open"
    /\ ~listen_cancel
    /\ LeaveTry

\* asyncio.sleep(backoff) returns: the backoff is doubled up to the cap and
\* "while self._running" is tested
SleepDone ==
    /\ conn_pc = "sleeping"
    /\ ~listen_cancel
    /\ backoff' = NextBackoff(backoff, max_delay)
    /\ IF ws_running
       THEN /\ connects < MaxConnects
            /\ connects' = connects + 1
            /\ conn_pc' = "connecting"
       ELSE /\ connects' = connects
            /\ conn_pc' = "ended"
    /\ UNCHANGED << ws_running, max_delay, sleep_for, failures, stop_pc,
                    listen_cancel >>
    /\ UNCHANGED not_conn_vars

\* the CancelledError of stop() is raised at the loop's await: inside the try
\* "except asyncio.CancelledError: return", in the sleep it leaves the task
ListenCancelled ==
    /\ listen_cancel
    /\ conn_pc \in { "connecting", "open", "sleeping" }
    /\ listen_cancel' = FALSE
    /\ conn_pc' = "ended"
    /\ UNCHANGED << ws_running, backoff, max_delay, sleep_for, failures,
                    connects, stop_pc >>
    /\ UNCHANGED not_conn_vars

\* if self._listen_task and not self._listen_task.done(): cancel it
CancelListenTask(at) == at # "ended"

\* stop(): _running = False; with a connection, await self._ws.close();
\* without one the listen task is cancelled at once
StopCalled ==
    /\ stop_pc = "none"
    /\ conn_pc # "idle"
    /\ ws_running' = FALSE
    /\ IF conn_pc = "open"
       THEN /\ stop_pc' = "closing"
            /\ listen_cancel' = listen_cancel
       ELSE /\ stop_pc' = "joining"
            /\ listen_cancel' = CancelListenTask(conn_pc)
    /\ UNCHANGED << conn_pc, backoff, max_delay, sleep_for, failures, connects >>
    /\ UNCHANGED not_conn_vars

\* stop(): self._ws.close() has returned; the listen task is cancelled
StopClosed ==
    /\ stop_pc = "closing"
    /\ listen_cancel' = CancelListenTask(conn_pc)
    /\ stop_pc' = "joining"
    /\ UNCHANGED << conn_pc, ws_running, backoff, max_delay, sleep_for, failures,
                    connects >>
    /\ UNCHANGED not_conn_vars

\* stop(): "await self._listen_task" returns
StopJoined ==
    /\ stop_pc = "joining"
    /\ conn_pc = "ended"
    /\ stop_pc' = "done"
    /\ UNCHANGED << conn_pc, ws_running, backoff, max_delay, sleep_for, failures,
                    connects, listen_cancel >>
    /\ UNCHANGED not_conn_vars

ConnNext ==
    \/ \E cap \in ReconnectMaxDelays : ConnectAndSubscribe(cap)
    \/ ConnectSucceeds
    \/ ConnectRaises
    \/ ConnectionDrops
    \/ SleepDone
    \/ ListenCancelled
    \/ StopCalled
    \/ StopClosed
    \/ StopJoined

ConnSpec == Init /\ [][ConnNext]_vars

(* ------------------------------------------------------------------ *)
(* C33: reconnection backoff                                            *)
(* ------------------------------------------------------------------ *)

RECURSIVE Pow2(_)
Pow2(n) == IF n <= 0 THEN 1 ELSE 2 * Pow2(n - 1)

\* the wait the claim prescribes after n consecutive failures
PrescribedWait(n, cap) == IF Pow2(n - 1) <= cap THEN Pow2(n - 1) ELSE cap

\* C33: the wait before a reconnect is 1 s after the first failed or dropped
\* connection that follows a successful one (or the start), doubles with each
\* further consecutive failure up to reconnect_max_delay; a reconnect is
\* attempted only after that wait; once stop() has been called no connect
\* attempt is started.
C33_BackoffAndStop ==
    /\ [](conn_pc = "sleeping" => sleep_for = PrescribedWait(failures, max_delay))
    /\ [][(conn_pc' = "connecting" /\ conn_pc \notin { "connecting", "idle" })
            => (conn_pc = "sleeping" /\ stop_pc = "none")]_vars
    /\ [][stop_pc' # "none" => connects' = connects]_vars

C33_Witness ==
    /\ stop_pc = "done"
    /\ failures >= 3
    /\ sleep_for = max_delay
    /\ connects < MaxConnects

====
